---- MODULE Spec2Model ----
(***************************************************************************)
(* Model of the talking-avatar video pipeline of faceforge-ai-api:         *)
(*   - get_job_status        (api/routers/video.py)  single status poll    *)
(*   - start_hedra_generation / submit_video_generation_job                *)
(*                           (api/routers/video.py)  non-blocking submit   *)
(*   - generate_video        (src/components/hedra_video.py) blocking mode *)
(* The remote generation service, the media servers and the external       *)
(* converter are the environment: every response they give is an input     *)
(* drawn from a small set.                                                 *)
(***************************************************************************)
EXTENDS Integers, Sequences, FiniteSets, TLC

VARIABLES
    \* ---- get_job_status -------------------------------------------------
    spc,          \* position of the status handler: "idle" | "waiting" | "done"
    job_id,       \* the cleaned job id of the query in progress / last query
    sreq,         \* remote requests sent by the query in progress / last query
    hedra,        \* the remote response the last query received
    view,         \* what the last query gave its caller (job object or error)
    queries,      \* number of queries started so far (bounded by MaxQueries)
    obs,          \* observer of the caller: summary of the statuses returned so far
    \* ---- start_hedra_generation / generate_video -------------------------
    mode,         \* "submit" (start_hedra_generation) | "blocking" (generate_video)
    pc,           \* position of the handler in its pipeline
    image,        \* image_url, image_data, image_filename, image_content_type, image_id
    audio,        \* audio_url, audio_data, audio_filename, audio_content_type, audio_id
    pending,      \* the rejected upload answer and the converted payload awaiting retry
    wire,         \* every request the handler has sent, in order
    raised,       \* the exception that ended the pipeline, << >> if none
    reply,        \* what the endpoint gave its caller, << >> while running
    polls,        \* polls made by the blocking loop so far
    polled,       \* the last answer the blocking loop read, << >> if none
    \* ---- convert_image_to_jpeg / convert_audio_to_mp3 --------------------
    conv,         \* the locals of each converter call in progress
    tmp           \* the files in the temporary directory

svars == <<spc, job_id, sreq, hedra, view, queries, obs>>

pvars == <<mode, pc, image, audio, pending, wire, raised, reply, polls, polled>>

cvars == <<conv, tmp>>

vars == <<svars, pvars, cvars>>

(***************************************************************************)
(* Values                                                                  *)
(***************************************************************************)
\* A JSON field that is missing from the body / a key missing from a dict.
Absent == "<absent>"
\* JSON null, Python None.
Null == "<null>"

\* Number of status queries one behaviour holds.
MaxQueries == 3

(***************************************************************************)
(* get_job_status: the job id as it arrives in the path.  A raw id is a    *)
(* sequence of characters/tokens; the handler strips surrounding quotes.   *)
(***************************************************************************)
Quote == "\""

RawJobIds == { <<"gen-1">>, <<Quote, "gen-1", Quote>>, <<"gen-2">> }

RECURSIVE LStrip(_)
LStrip(s) == IF s # <<>> /\ Head(s) = Quote THEN LStrip(Tail(s)) ELSE s

RECURSIVE RStrip(_)
RStrip(s) ==
    IF s # <<>> /\ s[Len(s)] = Quote THEN RStrip(SubSeq(s, 1, Len(s) - 1)) ELSE s

\* job_id.strip('"\'')
CleanJobId(raw) == RStrip(LStrip(raw))

(***************************************************************************)
(* The remote status endpoint's answers.                                   *)
(***************************************************************************)
KnownRemoteStatuses == {"queued", "processing", "complete", "error"}
UnknownRemoteStatuses == {"pending", "cancelled"}
RemoteStatuses == KnownRemoteStatuses \cup UnknownRemoteStatuses

\* Bodies of a 2xx answer that parses as a JSON object.
HedraBodies ==
    [ status        : RemoteStatuses \cup {Absent},
      created_at    : {Absent, "t0"},
      updated_at    : {Absent, "t1"},
      progress      : {Absent, "F0.5"},
      url           : {Absent, "", "https://cdn/video.mp4"},
      type          : {"video"},
      error_message : {Absent, Null, "invalid keyframe"} ]

NoBody ==
    [ status |-> Absent, created_at |-> Absent, updated_at |-> Absent,
      progress |-> Absent, url |-> Absent, type |-> "video",
      error_message |-> Absent ]

\* code 0: no HTTP answer at all (requests raises a connection error).
\* json FALSE: the body is not JSON (status_response.json() raises).
StatusResponses ==
    { [code |-> 200, json |-> TRUE, data |-> b] : b \in HedraBodies }
    \cup { [code |-> c, json |-> FALSE, data |-> NoBody] : c \in {0, 200, 401, 404, 422, 500} }

\* dict.get(key): None for a missing key and for a stored null alike.
Get(v) == IF v = Absent THEN Null ELSE v

\* Python truthiness of a .get() result (None and "" are falsy).
Truthy(v) == v \notin {Absent, Null, ""}

\* a or b
Or(a, b) == IF Truthy(a) THEN a ELSE b

\* str(x) of a progress value; the default of .get("progress", 0.0) is the float 0.0
PyStr(v) ==
    CASE v = Absent -> "0.0"
      [] v = Null   -> "None"
      [] v = "F0.5" -> "0.5"
      [] OTHER      -> v

(***************************************************************************)
(* get_job_status, lines 686-698: the status vocabulary                    *)
(***************************************************************************)
\* variant of OurStatus: the final else yields failed
OurStatus_unknownFails(hedra_data) ==
    CASE hedra_data.status = "queued"     -> "queued"
      [] hedra_data.status = "processing" -> "processing"
      [] hedra_data.status = "complete"   -> "completed"
      [] OTHER                            -> "failed"

\* variant of OurStatus: the first two branches exchanged
OurStatus_swapped(hedra_data) ==
    CASE hedra_data.status = "queued"     -> "processing"
      [] hedra_data.status = "processing" -> "queued"
      [] hedra_data.status = "complete"   -> "completed"
      [] hedra_data.status = "error"      -> "failed"
      [] OTHER                            -> "processing"

\* variant of OurStatus: complete counts only once the url is there
OurStatus_needsUrl(hedra_data) ==
    CASE hedra_data.status = "queued"     -> "queued"
      [] hedra_data.status = "processing" -> "processing"
      [] hedra_data.status = "complete"   ->
            IF Truthy(hedra_data.url) THEN "completed" ELSE "processing"
      [] hedra_data.status = "error"      -> "failed"
      [] OTHER                            -> "processing"

OurStatus(hedra_data) ==
    CASE hedra_data.status = "queued"     -> "queued"
      [] hedra_data.status = "processing" -> "processing"
      [] hedra_data.status = "complete"   -> "completed"
      [] hedra_data.status = "error"      -> "failed"
      [] OTHER                            -> "processing"

(***************************************************************************)
(* get_job_status, lines 700-728: the job object.  A key the handler does  *)
(* not set is Absent; result is <<>> when not set, <<r>> when set.         *)
(***************************************************************************)
\* variant of ResultOf: without the url test of line 709
ResultOf_always(hedra_data, our_status) ==
    IF our_status = "completed"
    THEN << [ status     |-> hedra_data.status,
              video_url  |-> Get(hedra_data.url),
              type       |-> Get(hedra_data.type),
              created_at |-> Get(hedra_data.created_at) ] >>
    ELSE << >>

ResultOf(hedra_data, our_status) ==
    IF our_status = "completed" /\ Truthy(Get(hedra_data.url))
    THEN << [ status     |-> hedra_data.status,
              video_url  |-> hedra_data.url,
              type       |-> Get(hedra_data.type),
              created_at |-> Get(hedra_data.created_at) ] >>
    ELSE << >>

\* variant of ErrorOf: an unrecognised remote status gets an error too
ErrorOf_onUnknown(hedra_data, our_status) ==
    IF our_status = "failed" \/ hedra_data.status \notin KnownRemoteStatuses
    THEN << "Generation failed: ",
            IF hedra_data.error_message = Absent
            THEN "Unknown error occurred" ELSE hedra_data.error_message >>
    ELSE << >>

\* hedra_data.get('error_message', 'Unknown error occurred'): the default
\* is used for a missing key only; a stored null is formatted as "None".
ErrorOf(hedra_data, our_status) ==
    IF our_status = "failed"
    THEN << "Generation failed: ",
            IF hedra_data.error_message = Absent
            THEN "Unknown error occurred"
            ELSE IF hedra_data.error_message = Null THEN "None"
            ELSE hedra_data.error_message >>
    ELSE << >>

\* variant of Stamp: the creation timestamp is preferred
Stamp_createdFirst(hedra_data) == Or(Get(hedra_data.created_at), Get(hedra_data.updated_at))

\* hedra_data.get("updated_at") or hedra_data.get("created_at")
Stamp(hedra_data) == Or(Get(hedra_data.updated_at), Get(hedra_data.created_at))

\* variant of CompletedAtOf: every answer is stamped
CompletedAtOf_always(hedra_data, our_status) == Stamp(hedra_data)

\* lines 709-715 and 718-722: completed_at is set beside result and error
CompletedAtOf(hedra_data, our_status) ==
    IF our_status = "failed" THEN Stamp(hedra_data)
    ELSE IF our_status = "completed" /\ Truthy(Get(hedra_data.url)) THEN Stamp(hedra_data)
    ELSE Absent

\* variant of StartedAtOf: a queued job is stamped too
StartedAtOf_queued(hedra_data, our_status) ==
    IF our_status \in {"processing", "queued"} THEN Stamp(hedra_data) ELSE Absent

\* lines 724-726
StartedAtOf(hedra_data, our_status) ==
    IF our_status = "processing" THEN Stamp(hedra_data) ELSE Absent

ResponseData(id, hedra_data) ==
    LET our_status == OurStatus(hedra_data) IN
    [ job_id       |-> id,
      status       |-> our_status,
      created_at   |-> Get(hedra_data.created_at),
      progress     |-> PyStr(hedra_data.progress),
      result       |-> ResultOf(hedra_data, our_status),
      completed_at |-> CompletedAtOf(hedra_data, our_status),
      error        |-> ErrorOf(hedra_data, our_status),
      started_at   |-> StartedAtOf(hedra_data, our_status) ]

(***************************************************************************)
(* get_job_status, lines 669-684 and 730-737: what the caller receives.    *)
(* http is the status of the handler's own answer; job is <<>> when the    *)
(* handler raised.                                                         *)
(***************************************************************************)
Raised(code, detail) == [http |-> code, detail |-> detail, job |-> << >>]

\* variant of JobStatusResponse: created_at is optional
JobStatusResponse_optionalCreatedAt(response_data) == TRUE

\* responses.py lines 28-36, the response_model of the endpoint (line 646):
\* job_id, status, created_at and progress must be strings; the other
\* fields may be null.  Of the four only created_at can be None here.
JobStatusResponse(response_data) == response_data.created_at \notin {Absent, Null}

\* what the endpoint answers for the dict the handler returned: the dict
\* when the response model accepts it, else the 500 of the framework
Validated(id, hedra_data) ==
    IF JobStatusResponse(ResponseData(id, hedra_data))
    THEN [http |-> 200, detail |-> << >>, job |-> << ResponseData(id, hedra_data) >>]
    ELSE Raised(500, <<"Internal Server Error">>)

\* variant of StatusOutcome: without the 422 branch of lines 677-681
StatusOutcome_no422(id, r) ==
    IF r.code = 404 THEN Raised(404, <<"Job not found">>)
    ELSE IF r.code = 0 \/ r.code >= 400 \/ ~r.json \/ r.data.status = Absent
         THEN Raised(500, <<"Failed to check job status: ">>)
    ELSE Validated(id, r.data)

StatusOutcome(id, r) ==
    IF r.code = 0
    THEN \* session.get raised: except Exception
         Raised(500, <<"Failed to check job status: ", "connection error">>)
    ELSE IF r.code = 404 THEN Raised(404, <<"Job not found">>)
    ELSE IF r.code = 422 THEN Raised(422, <<"Invalid job ID format: ">> \o id)
    ELSE IF r.code >= 400
    THEN \* raise_for_status()
         Raised(500, <<"Failed to check job status: ", "http error">>)
    ELSE IF ~r.json
    THEN \* status_response.json() raised
         Raised(500, <<"Failed to check job status: ", "not json">>)
    ELSE IF r.data.status = Absent
    THEN \* hedra_data["status"] raised KeyError
         Raised(500, <<"Failed to check job status: ", "'status'">>)
    ELSE Validated(id, r.data)

(***************************************************************************)
(* The observer of one caller polling one job id.                          *)
(***************************************************************************)
Rank(s) ==
    CASE s = "queued" -> 0
      [] s = "processing" -> 1
      [] OTHER -> 2

\* the remote vocabulary's own order: queued < processing < {complete, error}
RemoteRank(s) ==
    CASE s = "queued" -> 0
      [] s = "processing" -> 1
      [] s \in {"complete", "error"} -> 2
      [] OTHER -> 1

NoObs ==
    [ seen          |-> FALSE,   \* some query returned a job object
      returned      |-> 0,       \* number of job objects returned
      sinceTerminal |-> 0,       \* job objects returned after the first terminal one
      maxRank       |-> 0,       \* highest rank among the statuses returned
      wentBack      |-> FALSE,   \* a returned status ranked below an earlier one
      terminal      |-> Absent,  \* the first terminal status returned
      leftTerminal  |-> FALSE,   \* a later query returned another status
      lastRemote    |-> Absent,  \* remote status of the last successful query
      remoteForward |-> TRUE,    \* remote reported only known statuses, never going back
      remoteHeld    |-> TRUE,    \* remote status unchanged since `terminal` was returned
      logging       |-> FALSE,   \* the observer keeps every answer and outcome
      log           |-> << >> ]  \* the answers received and the outcomes given, in order

Observe(o, remote_status, local_status) ==
    [ seen          |-> TRUE,
      returned      |-> o.returned + 1,
      sinceTerminal |-> IF o.terminal # Absent THEN o.sinceTerminal + 1 ELSE 0,
      maxRank       |-> IF o.seen /\ o.maxRank > Rank(local_status)
                        THEN o.maxRank ELSE Rank(local_status),
      wentBack      |-> o.wentBack \/ (o.seen /\ Rank(local_status) < o.maxRank),
      terminal      |-> IF o.terminal = Absent /\ local_status \in {"completed", "failed"}
                        THEN local_status ELSE o.terminal,
      leftTerminal  |-> o.leftTerminal
                        \/ (o.terminal # Absent /\ local_status # o.terminal),
      lastRemote    |-> remote_status,
      remoteForward |-> /\ o.remoteForward
                        /\ remote_status \in KnownRemoteStatuses
                        /\ o.lastRemote # Absent
                             => RemoteRank(remote_status) >= RemoteRank(o.lastRemote),
      remoteHeld    |-> /\ o.remoteHeld
                        /\ o.terminal # Absent => remote_status = o.lastRemote,
      logging       |-> o.logging,
      log           |-> o.log ]

\* a logging observer notes the remote answer and what the caller was given
Logged(o, r, v) ==
    IF o.logging THEN [o EXCEPT !.log = Append(@, [remote |-> r, view |-> v])] ELSE o

(***************************************************************************)
(* Actions of get_job_status                                               *)
(***************************************************************************)
\* lines 652-669: clean the id, open the session, send the one GET.
get_job_status_call(raw) ==
    /\ spc \in {"idle", "done"}
    /\ queries < MaxQueries
    /\ job_id \in {<< >>, CleanJobId(raw)}
    /\ spc' = "waiting"
    /\ job_id' = CleanJobId(raw)
    /\ sreq' = 1
    /\ queries' = queries + 1
    /\ UNCHANGED <<hedra, view, obs>>
    /\ UNCHANGED pvars
    /\ UNCHANGED cvars

\* variant of get_job_status_reply: a terminal job object is kept and
\* given again to later queries
get_job_status_reply_sticky(r) ==
    /\ spc = "waiting"
    /\ spc' = "done"
    /\ hedra' = r
    /\ view' = IF view.job # << >> /\ view.job[1].status \in {"completed", "failed"}
               THEN view
               ELSE StatusOutcome(job_id, r)
    /\ obs' = Logged(IF view'.job # << >>
                     THEN Observe(obs, r.data.status, view'.job[1].status)
                     ELSE obs,
                     r, view')
    /\ UNCHANGED <<job_id, sreq, queries>>
    /\ UNCHANGED pvars
    /\ UNCHANGED cvars

\* lines 671-737: the answer arrives; translate it or raise.
get_job_status_reply(r) ==
    /\ spc = "waiting"
    /\ spc' = "done"
    /\ hedra' = r
    /\ view' = StatusOutcome(job_id, r)
    /\ obs' = Logged(IF view'.job # << >>
                     THEN Observe(obs, r.data.status, view'.job[1].status)
                     ELSE obs,
                     r, view')
    /\ UNCHANGED <<job_id, sreq, queries>>
    /\ UNCHANGED pvars
    /\ UNCHANGED cvars

(***************************************************************************)
(* Media payloads, file names and content types                            *)
(***************************************************************************)
\* Leading bytes of a payload (at most its first 12 bytes).
JpegHead == <<255, 216, 255, 224>>
PngHead  == <<137, 80, 78, 71>>
RiffWebpHead == <<82, 73, 70, 70, 36, 0, 0, 0, 87, 69, 66, 80>>
RiffWaveHead == <<82, 73, 70, 70, 36, 0, 0, 0, 87, 65, 86, 69>>
GifHead  == <<71, 73, 70, 56, 57, 97>>
Id3Head  == <<73, 68, 51, 4>>
MpegSyncHead == <<255, 251, 144, 0>>
EbmlHead == <<26, 69, 223, 163>>
XmlHead  == <<60, 63, 120, 109>>

\* A payload: its leading bytes, its length, the storage-service error
\* marker its body contains (if any), and how many times the converter has
\* re-encoded it (two payloads are the same bytes iff all four agree).
Bytes(head, len, marker) == [head |-> head, len |-> len, marker |-> marker, enc |-> 0]
NoBytes == Bytes(<< >>, 0, "none")

\* bytes.startswith(prefix)
StartsWith(b, prefix) ==
    /\ Len(b) >= Len(prefix)
    /\ SubSeq(b, 1, Len(prefix)) = prefix

\* A file name: stem and extension (extension "" when there is none).
Name(stem, ext) == [stem |-> stem, ext |-> ext]
NoName == Name("", "")

\* str.lower() of an extension
LowerExt(e) ==
    CASE e = ".JPG" -> ".jpg"
      [] e = ".MP3" -> ".mp3"
      [] OTHER -> e

\* filename.lower().endswith(exts)
EndsWith(name, exts) == LowerExt(name.ext) \in exts

\* A media URL: whether its text holds 's3.' or 'amazonaws.com', and the
\* last segment of its path.
Url(s3, name) == [s3 |-> s3, name |-> name]
NoUrl == Url(FALSE, NoName)

\* os.path.basename(urlparse(url).path) or default
Basename(url, default) == IF url.name = NoName THEN default ELSE url.name

\* mimetypes.guess_type(path)[0]; Null when the extension is not known to it
GuessType(name) ==
    LET e == LowerExt(name.ext) IN
    CASE e \in {".jpg", ".jpeg"} -> "image/jpeg"
      [] e = ".png"  -> "image/png"
      [] e = ".gif"  -> "image/gif"
      [] e = ".webp" -> "image/webp"
      [] e = ".mp3"  -> "audio/mpeg"
      [] e = ".wav"  -> "audio/x-wav"
      [] e = ".webm" -> "video/webm"
      [] e = ".mp4"  -> "video/mp4"
      [] OTHER -> Null

\* get_content_type_from_url(url, default_content_type)
get_content_type_from_url(url, default_content_type) ==
    LET mime_type == GuessType(url.name)
        ext == LowerExt(url.name.ext) IN
    IF mime_type = Null
    THEN CASE ext \in {".jpg", ".jpeg"} -> "image/jpeg"
           [] ext = ".png" -> "image/png"
           [] ext = ".mp3" -> "audio/mpeg"
           [] ext = ".wav" -> "audio/wav"
           [] ext = ".m4a" -> "audio/mp4"
           [] ext = ".aac" -> "audio/aac"
           [] ext = ".ogg" -> "audio/ogg"
           [] OTHER -> default_content_type
    ELSE mime_type

\* Minimum payload size accepted after a download.
MinSize == 100

(***************************************************************************)
(* start_hedra_generation, lines 133-181: the image's content type and     *)
(* file name.  declared is the Content-Type header (Absent when missing).  *)
(***************************************************************************)
ImageDeclared(url, declared) ==
    LET ct == IF declared = Absent THEN "image/jpeg" ELSE declared IN
    IF ct = "" \/ ct = "application/octet-stream"
    THEN get_content_type_from_url(url, "image/jpeg")
    ELSE ct

\* variant of ImageSniff: a declared image/png is believed, whatever the bytes
ImageSniff_trustsDeclared(url, declared, data) ==
    LET ct == ImageDeclared(url, declared)
        fn == Basename(url, Name("input", ".jpg")) IN
    IF StartsWith(data.head, <<255, 216, 255>>) /\ ct # "image/png"
    THEN [content_type |-> "image/jpeg",
          filename |-> IF EndsWith(fn, {".jpg", ".jpeg"}) THEN fn ELSE Name("image", ".jpg")]
    ELSE [content_type |-> ct, filename |-> fn]

ImageSniff(url, declared, data) ==
    LET ct == ImageDeclared(url, declared)
        fn == Basename(url, Name("input", ".jpg"))
        magic_bytes == SubSeq(data.head, 1, IF Len(data.head) < 4 THEN Len(data.head) ELSE 4)
        keep == [content_type |-> ct, filename |-> fn] IN
    IF data.len >= 4
    THEN CASE StartsWith(magic_bytes, <<255, 216, 255>>) ->
                [content_type |-> "image/jpeg",
                 filename |-> IF EndsWith(fn, {".jpg", ".jpeg"}) THEN fn ELSE Name("image", ".jpg")]
           [] StartsWith(magic_bytes, <<137, 80, 78, 71>>) ->
                [content_type |-> "image/png",
                 filename |-> IF EndsWith(fn, {".png"}) THEN fn ELSE Name("image", ".png")]
           [] /\ StartsWith(magic_bytes, <<82, 73, 70, 70>>)
              /\ data.len > 12
              /\ Len(data.head) >= 12
              /\ SubSeq(data.head, 9, 12) = <<87, 69, 66, 80>> ->
                [content_type |-> "image/webp",
                 filename |-> IF EndsWith(fn, {".webp"}) THEN fn ELSE Name("image", ".webp")]
           [] StartsWith(magic_bytes, <<71, 73, 70, 56>>) ->
                [content_type |-> "image/gif",
                 filename |-> IF EndsWith(fn, {".gif"}) THEN fn ELSE Name("image", ".gif")]
           [] OTHER -> keep
    ELSE keep

\* line 187: the types uploaded as they are
ImageAccepted(content_type) == content_type \in {"image/jpeg", "image/jpg", "image/png"}

\* lines 194-197 / 359-362: the storage-service error page check
S3Error(url, data) == url.s3 /\ data.marker # "none"

(***************************************************************************)
(* start_hedra_generation, lines 338-457: the audio's content type and     *)
(* file name.                                                              *)
(***************************************************************************)
AudioDeclared(url, declared) ==
    LET ct == IF declared = Absent THEN "audio/mpeg" ELSE declared IN
    IF ct = "" \/ ct = "application/octet-stream"
    THEN get_content_type_from_url(url, "audio/mpeg")
    ELSE ct

\* 'audio/xxx' in content_type / content_type.startswith: a content type
\* is a token here, so "in" and equality coincide on the types modelled.
AudioFixName(ct, fn) ==
    IF ~EndsWith(fn, {".mp3", ".wav", ".m4a", ".aac", ".ogg"})
    THEN CASE ct = "audio/wav" -> [content_type |-> ct, filename |-> Name("audio", ".wav")]
           [] ct \in {"audio/mpeg", "audio/mp3"} ->
                [content_type |-> ct, filename |-> Name("audio", ".mp3")]
           [] ct \in {"audio/mp4", "audio/m4a"} ->
                [content_type |-> ct, filename |-> Name("audio", ".m4a")]
           [] ct = "audio/aac" -> [content_type |-> ct, filename |-> Name("audio", ".aac")]
           [] ct = "audio/ogg" -> [content_type |-> ct, filename |-> Name("audio", ".ogg")]
           [] OTHER -> [content_type |-> "audio/mpeg", filename |-> Name("audio", ".mp3")]
    ELSE [content_type |-> ct, filename |-> fn]

AsMp3(fn) == IF EndsWith(fn, {".mp3"}) THEN fn ELSE Name("audio", ".mp3")

AudioMagic(a, data) ==
    LET magic_bytes == SubSeq(data.head, 1, IF Len(data.head) < 4 THEN Len(data.head) ELSE 4) IN
    IF data.len >= 4
    THEN CASE StartsWith(magic_bytes, <<82, 73, 70, 70>>) ->
                [content_type |-> "audio/wav",
                 filename |-> IF EndsWith(a.filename, {".wav"}) THEN a.filename
                              ELSE Name("audio", ".wav")]
           [] \/ StartsWith(magic_bytes, <<73, 68, 51>>)
              \/ StartsWith(magic_bytes, <<255, 251>>)
              \/ StartsWith(magic_bytes, <<255, 243>>) ->
                [content_type |-> "audio/mpeg", filename |-> AsMp3(a.filename)]
           [] StartsWith(magic_bytes, <<26, 69, 223, 163>>) ->
                [content_type |-> "audio/mpeg", filename |-> AsMp3(a.filename)]
           [] OTHER -> a
    ELSE a

IsVideoType(ct) == ct \in {"video/webm", "video/mp4"}
IsAudioType(ct) ==
    ct \in {"audio/mpeg", "audio/mp3", "audio/wav", "audio/x-wav", "audio/mp4",
            "audio/m4a", "audio/aac", "audio/ogg", "audio/webm"}

AudioForce(a) ==
    LET b == IF IsVideoType(a.content_type)
             THEN [content_type |-> "audio/mpeg", filename |-> AsMp3(a.filename)]
             ELSE a
        c == IF ~IsAudioType(b.content_type)
             THEN [content_type |-> "audio/mpeg", filename |-> AsMp3(b.filename)]
             ELSE b IN
    CASE c.content_type = "audio/wav" /\ ~EndsWith(c.filename, {".wav"}) ->
            [c EXCEPT !.filename = Name("audio", ".wav")]
      [] c.content_type = "audio/mpeg" /\ ~EndsWith(c.filename, {".mp3"}) ->
            [c EXCEPT !.filename = Name("audio", ".mp3")]
      [] c.content_type = "audio/mp4" /\ ~EndsWith(c.filename, {".m4a"}) ->
            [c EXCEPT !.filename = Name("audio", ".m4a")]
      [] OTHER -> c

AudioSniff(url, declared, data) ==
    AudioForce(AudioMagic(
        AudioFixName(AudioDeclared(url, declared), Basename(url, Name("input", ".mp3"))),
        data))

\* line 463: the types uploaded as they are
AudioAccepted(content_type) == content_type \in {"audio/mpeg", "audio/mp3"}

(***************************************************************************)
(* convert_image_to_jpeg / convert_audio_to_mp3.  The converter's outcome  *)
(* is the environment's:                                                   *)
(*   "unavailable"  ffmpeg -version fails (or ffmpeg is not installed)     *)
(*   "failed"       non-zero exit or no output file                        *)
(*   "converted"    success, the output differs from the input             *)
(*   "identical"    success, the output is byte-identical to the input     *)
(***************************************************************************)
ConvertOutcomes == {"unavailable", "failed", "converted", "identical"}

Reencoded(data, head) ==
    [head |-> head, len |-> 4000, marker |-> "none", enc |-> data.enc + 1]

convert_image_to_jpeg(image_data, original_filename, t) ==
    CASE t = "converted" ->
            [data |-> Reencoded(image_data, JpegHead), filename |-> Name("image", ".jpg")]
      [] t = "identical" ->
            [data |-> image_data, filename |-> Name("image", ".jpg")]
      [] OTHER -> [data |-> image_data, filename |-> original_filename]

convert_audio_to_mp3(audio_data, original_filename, t) ==
    CASE t = "converted" ->
            [data |-> Reencoded(audio_data, Id3Head), filename |-> Name("audio", ".mp3")]
      [] t = "identical" ->
            [data |-> audio_data, filename |-> Name("audio", ".mp3")]
      [] OTHER -> [data |-> audio_data, filename |-> original_filename]

(***************************************************************************)
(* Answers of the remote service and of the media servers                  *)
(***************************************************************************)
\* code 0: no HTTP answer (the request raised); json: the body parses as
\* JSON; body: the words of the body text; id: the "id" field of the body.
Resp(code, json, body, id) == [code |-> code, json |-> json, body |-> body, id |-> id]

\* requests.Response.ok
Ok(r) == r.code # 0 /\ r.code < 400

\* GET /models: id is the first model's id, Absent for an empty list
ModelsResponses ==
    { Resp(200, TRUE, << >>, "model-live"),
      Resp(200, TRUE, << >>, Absent),
      Resp(500, FALSE, <<"Internal", "error">>, Absent),
      Resp(0, FALSE, << >>, Absent) }

\* POST /assets
AssetResponses ==
    { Resp(200, TRUE, << >>, "asset-1"),
      Resp(200, TRUE, << >>, "asset-2"),
      Resp(200, TRUE, << >>, Absent),
      Resp(400, TRUE, <<"Invalid", "asset", "type">>, Absent),
      Resp(409, TRUE, <<"Asset", "exists">>, "asset-9"),
      Resp(502, FALSE, <<"Bad", "Gateway">>, Absent),
      Resp(0, FALSE, << >>, Absent) }

\* POST /assets/{id}/upload
UploadResponses ==
    { Resp(200, TRUE, << >>, Absent),
      Resp(415, TRUE, <<"Unsupported", "mime", "type">>, Absent),
      Resp(400, TRUE, <<"Invalid", "file", "format">>, Absent),
      Resp(401, TRUE, <<"Invalid", "API", "key">>, Absent),
      Resp(403, TRUE, <<"Forbidden">>, Absent),
      Resp(0, FALSE, << >>, Absent) }

\* POST /generations
GenerationResponses ==
    { Resp(200, TRUE, << >>, "gen-1"),
      Resp(200, TRUE, << >>, "gen-2"),
      Resp(200, TRUE, << >>, Absent),
      Resp(422, TRUE, <<"Invalid", "request">>, Absent),
      Resp(0, FALSE, << >>, Absent) }

\* str.lower() of a word of a body
Lower(w) ==
    CASE w = "Unsupported" -> "unsupported"
      [] w = "Invalid"     -> "invalid"
      [] w = "Forbidden"   -> "forbidden"
      [] OTHER -> w

\* word in error_text.lower()
Contains(body, word) == \E i \in 1..Len(body) : Lower(body[i]) = word

\* A media download: the answer's code, its Content-Type header and bytes.
Download(url, code, declared, data) ==
    [url |-> url, code |-> code, declared |-> declared, data |-> data]

ImageDownloads ==
    { Download(Url(FALSE, Name("photo", ".jpg")), 200, "image/jpeg", Bytes(JpegHead, 5000, "none")),
      Download(Url(FALSE, Name("photo", ".png")), 200, "application/octet-stream",
               Bytes(PngHead, 5000, "none")),
      Download(Url(FALSE, Name("pic", "")), 200, Absent, Bytes(RiffWebpHead, 5000, "none")),
      Download(Url(FALSE, Name("anim", ".gif")), 200, "image/gif", Bytes(GifHead, 100, "none")),
      Download(Url(TRUE, NoName), 200, "binary/octet-stream", Bytes(JpegHead, 5000, "none")),
      Download(Url(TRUE, Name("photo", ".jpg")), 200, "application/xml",
               Bytes(XmlHead, 300, "AccessDenied")),
      Download(Url(FALSE, Name("photo", ".jpg")), 200, "image/jpeg", Bytes(JpegHead, 99, "none")),
      Download(Url(FALSE, Name("photo", ".jpg")), 404, "text/html", Bytes(XmlHead, 300, "none")),
      Download(Url(TRUE, Name("photo", ".jpg")), 0, Absent, NoBytes) }

AudioDownloads ==
    { Download(Url(FALSE, Name("voice", ".mp3")), 200, "audio/mpeg", Bytes(Id3Head, 5000, "none")),
      Download(Url(FALSE, Name("voice", "")), 200, "application/octet-stream",
               Bytes(MpegSyncHead, 5000, "none")),
      Download(Url(FALSE, Name("voice", ".wav")), 200, "audio/wav", Bytes(RiffWaveHead, 5000, "none")),
      Download(Url(FALSE, Name("rec", ".webm")), 200, "video/webm", Bytes(EbmlHead, 5000, "none")),
      Download(Url(FALSE, Name("voice", ".ogg")), 200, "audio/ogg", Bytes(XmlHead, 100, "none")),
      Download(Url(TRUE, Name("voice", ".mp3")), 200, "application/xml",
               Bytes(XmlHead, 300, "NoSuchKey")),
      Download(Url(FALSE, Name("voice", ".mp3")), 200, "audio/mpeg", Bytes(Id3Head, 99, "none")),
      Download(Url(FALSE, Name("voice", ".mp3")), 404, "text/html", Bytes(XmlHead, 300, "none")),
      Download(Url(TRUE, Name("voice", ".mp3")), 0, Absent, NoBytes) }

\* The request body of the endpoint.  An optional number is << >> when it
\* is None and <<n>> when supplied; duration is in microseconds here (the
\* code holds seconds as a float).
Requests ==
    [ text_prompt  : {"a prompt"},
      aspect_ratio : {"16:9"},
      resolution   : {"720p"},
      duration     : {<< >>, <<10000000>>, <<1000700>>},
      seed         : {<< >>, <<42>>} ]

(***************************************************************************)
(* Requests on the wire                                                    *)
(***************************************************************************)
\* A request, and (once sent) the answer it got.  request is the caller's
\* request body a generation payload was built from; it is not sent.
Req(op, kind, name, content_type, data, id, payload) ==
    [op |-> op, kind |-> kind, name |-> name, content_type |-> content_type,
     data |-> data, id |-> id, payload |-> payload, request |-> << >>,
     answer |-> Resp(0, FALSE, << >>, Absent)]

Sent(req, answer) == [req EXCEPT !.answer = answer]

\* the answer of a media server, of the converter, of the status endpoint
\* (of a media server's answer the Content-Type header is kept, as body[1])
DownloadAnswer(d) == Resp(d.code, FALSE, <<d.declared>>, Absent)
ConvertAnswer(t) == Resp(0, FALSE, <<t>>, Absent)
\* of the status endpoint's body only its "status" is kept, as body[1]
PollAnswer(r) == Resp(r.code, r.json, IF r.json THEN <<r.data.status>> ELSE << >>, Absent)

ReqModels == Req("GET /models", Absent, NoName, Absent, NoBytes, Absent, << >>)
ReqDownload(kind, url) == Req("download", kind, url.name, Absent, NoBytes, Absent, << >>)
ReqConvert(kind, name, data) == Req("convert", kind, name, Absent, data, Absent, << >>)
ReqCreate(kind, name) == Req("POST /assets", kind, name, Absent, NoBytes, Absent, << >>)
ReqUpload(kind, id, name, content_type, data) ==
    Req("upload", kind, name, content_type, data, id, << >>)
\* The fixed model identifier (line 107 / hedra_video.py line 65).
ModelId == "d1dd37a3-e39a-4854-a298-6510289f9cf2"

\* int(duration * 1000), the duration held in microseconds
DurationMs(duration) == duration \div 1000

\* variant of GenerationRequestData: a number the caller left out is sent
\* as 0
GenerationRequestData_placeholders(request_data, image_id, audio_id) ==
    [ type              |-> "video",
      ai_model_id       |-> ModelId,
      start_keyframe_id |-> image_id,
      audio_id          |-> audio_id,
      text_prompt       |-> request_data.text_prompt,
      resolution        |-> request_data.resolution,
      aspect_ratio      |-> request_data.aspect_ratio,
      duration_ms       |-> IF request_data.duration # << >>
                            THEN <<DurationMs(request_data.duration[1])>> ELSE <<0>>,
      seed              |-> IF request_data.seed # << >>
                            THEN request_data.seed ELSE <<0>> ]

\* lines 562-579: the generation payload; an optional key not set is << >>
GenerationRequestData(request_data, image_id, audio_id) ==
    [ type              |-> "video",
      ai_model_id       |-> ModelId,
      start_keyframe_id |-> image_id,
      audio_id          |-> audio_id,
      text_prompt       |-> request_data.text_prompt,
      resolution        |-> request_data.resolution,
      aspect_ratio      |-> request_data.aspect_ratio,
      duration_ms       |-> IF request_data.duration # << >>
                            THEN <<DurationMs(request_data.duration[1])>> ELSE << >>,
      seed              |-> IF request_data.seed # << >>
                            THEN request_data.seed ELSE << >> ]

\* line 583 / hedra_video.py lines 117-119: POST /generations with the payload
ReqGeneration(request_data, image_id, audio_id) ==
    [Req("POST /generations", Absent, NoName, Absent, NoBytes, Absent,
         <<GenerationRequestData(request_data, image_id, audio_id)>>)
     EXCEPT !.request = <<request_data>>]

(***************************************************************************)
(* Errors.  HTTPException(status_code, detail); detail is a sequence of    *)
(* words, the remote body's words among them when the message quotes it.   *)
(***************************************************************************)
HTTPException(status_code, detail) ==
    [type |-> "HTTPException", status_code |-> status_code, detail |-> detail]

\* any other exception (requests' errors, KeyError, ...), with its message
Exception(type, message) == [type |-> type, status_code |-> 0, detail |-> message]

\* str(e); of an HTTPException "<status_code>: <detail>", the __str__ of
\* the framework's exception class
StrOf(e) ==
    IF e.type = "HTTPException"
    THEN <<ToString(e.status_code), ": ">> \o e.detail
    ELSE e.detail

\* variant of SubmitFailure: an HTTPException is re-raised as it is
SubmitFailure_reraised(e) ==
    IF e.type = "HTTPException"
    THEN [http |-> e.status_code, detail |-> e.detail, body |-> << >>]
    ELSE [http |-> 500, detail |-> <<"Failed to submit job: ">> \o StrOf(e), body |-> << >>]

\* submit_video_generation_job, lines 639-644: every exception becomes a 500
SubmitFailure(e) ==
    [http |-> 500, detail |-> <<"Failed to submit job: ">> \o StrOf(e), body |-> << >>]

\* variant of SubmitSuccess: the endpoint issues an identifier of its own
SubmitSuccess_ownId(hedra_generation_id) ==
    [http |-> 200, detail |-> << >>,
     body |-> << [job_id  |-> "job-1",
                  status  |-> "queued",
                  message |-> "Video generation job submitted successfully"] >>]

\* submit_video_generation_job, lines 633-637
SubmitSuccess(hedra_generation_id) ==
    [http |-> 200, detail |-> << >>,
     body |-> << [job_id  |-> hedra_generation_id,
                  status  |-> "queued",
                  message |-> "Video generation job submitted successfully"] >>]

NoAsset ==
    [url |-> NoUrl, data |-> NoBytes, filename |-> NoName, content_type |-> Absent,
     id |-> Absent]

NoPending == [code |-> 0, error_text |-> << >>, data |-> NoBytes, filename |-> NoName]

(***************************************************************************)
(* start_hedra_generation (submit mode), one action per request it sends   *)
(* or converter run it starts.  The handler raises at the first failure;   *)
(* submit_video_generation_job turns whatever was raised into its 500.     *)
(***************************************************************************)
Fail(e) ==
    /\ pc' = "failed"
    /\ raised' = <<e>>
    /\ reply' = <<SubmitFailure(e)>>

Goto(next) ==
    /\ pc' = next
    /\ UNCHANGED <<raised, reply>>

\* variant of models_lookup: a failed lookup is only logged
models_lookup_lenient(r) ==
    /\ mode = "submit" /\ pc = "models"
    /\ wire' = Append(wire, Sent(ReqModels, r))
    /\ Goto("image_download")
    /\ UNCHANGED <<mode, image, audio, pending, polls, polled>>
    /\ UNCHANGED svars
    /\ UNCHANGED cvars

\* lines 101-113
models_lookup(r) ==
    /\ mode = "submit" /\ pc = "models"
    /\ wire' = Append(wire, Sent(ReqModels, r))
    /\ IF ~Ok(r) \/ ~r.json \/ r.id = Absent
       THEN Fail(HTTPException(500, <<"Failed to retrieve model ID: ">>))
       ELSE Goto("image_download")
    /\ UNCHANGED <<mode, image, audio, pending, polls, polled>>
    /\ UNCHANGED svars
    /\ UNCHANGED cvars

\* lines 229-235, 472-477: the name the asset record is created under
CreateName(asset) == asset.filename

\* lines 116-227: fetch the image, check its size, resolve its type and name
image_download(d) ==
    /\ mode = "submit" /\ pc = "image_download"
    /\ wire' = Append(wire, Sent(ReqDownload("image", d.url), DownloadAnswer(d)))
    /\ LET sn == ImageSniff(d.url, d.declared, d.data)
           got == [url |-> d.url, data |-> d.data, filename |-> sn.filename,
                   content_type |-> sn.content_type, id |-> Absent] IN
       IF d.code = 0 \/ d.code >= 400
       THEN /\ Fail(HTTPException(400,
                    IF d.url.s3 THEN <<"Failed to access S3 image file: ">>
                    ELSE <<"Failed to download image: ">>))
            /\ image' = [NoAsset EXCEPT !.url = d.url,
                                        !.filename = Basename(d.url, Name("input", ".jpg"))]
       ELSE IF d.data.len < MinSize
       THEN /\ Fail(HTTPException(400, <<"Image file appears to be invalid or inaccessible.">>))
            /\ image' = [NoAsset EXCEPT !.url = d.url, !.data = d.data,
                                        !.filename = Basename(d.url, Name("input", ".jpg")),
                                        !.content_type =
                                            IF d.declared = Absent THEN "image/jpeg" ELSE d.declared]
       ELSE /\ image' = got
            /\ IF ~ImageAccepted(sn.content_type) THEN Goto("image_preconvert")
               ELSE IF S3Error(d.url, d.data)
               THEN Fail(HTTPException(400, <<"S3 access error.">>))
               ELSE Goto("image_create")
    /\ UNCHANGED <<mode, audio, pending, polls, polled>>
    /\ UNCHANGED svars
    /\ UNCHANGED cvars

\* lines 185-204: convert an image the remote does not take, then the S3 check
image_preconvert(t) ==
    /\ mode = "submit" /\ pc = "image_preconvert"
    /\ wire' = Append(wire, Sent(ReqConvert("image", image.filename, image.data), ConvertAnswer(t)))
    /\ LET c == convert_image_to_jpeg(image.data, image.filename, t) IN
       /\ image' = [image EXCEPT !.data = c.data, !.filename = c.filename,
                                 !.content_type = "image/jpeg"]
       /\ IF S3Error(image.url, c.data)
          THEN Fail(HTTPException(400, <<"S3 access error.">>))
          ELSE Goto("image_create")
    /\ UNCHANGED <<mode, audio, pending, polls, polled>>
    /\ UNCHANGED svars
    /\ UNCHANGED cvars

\* lines 229-253
image_create(r) ==
    /\ mode = "submit" /\ pc = "image_create"
    /\ wire' = Append(wire, Sent(ReqCreate("image", CreateName(image)), r))
    /\ IF r.code = 0
       THEN Fail(HTTPException(500, <<"Failed to create image asset: ">>)) /\ UNCHANGED image
       ELSE IF ~Ok(r)
       THEN Fail(HTTPException(400, <<"Image asset creation failed: ">> \o r.body))
            /\ UNCHANGED image
       ELSE IF ~r.json \/ r.id = Absent
       THEN Fail(HTTPException(500, <<"Failed to create image asset: ">>)) /\ UNCHANGED image
       ELSE Goto("image_upload") /\ image' = [image EXCEPT !.id = r.id]
    /\ UNCHANGED <<mode, audio, pending, polls, polled>>
    /\ UNCHANGED svars
    /\ UNCHANGED cvars

\* line 274: the words that send a rejected image upload to the converter
ImageRetryWords == {"unsupported", "invalid"}

\* line 516: the words that send a rejected audio upload to the converter
AudioRetryWords == {"unsupported"}

FormatRejection(kind, error_text) ==
    \E w \in (IF kind = "image" THEN ImageRetryWords ELSE AudioRetryWords) :
        Contains(error_text, w)

\* variant of image_upload: a rejected upload is logged and the audio is
\* fetched all the same
image_upload_goesOn(r) ==
    /\ mode = "submit" /\ pc = "image_upload"
    /\ wire' = Append(wire,
               Sent(ReqUpload("image", image.id, image.filename, image.content_type, image.data),
                    r))
    /\ IF r.code = 0
       THEN Fail(HTTPException(500, <<"Failed to upload image file: ">>))
       ELSE Goto("audio_download")
    /\ UNCHANGED <<mode, image, audio, pending, polls, polled>>
    /\ UNCHANGED svars
    /\ UNCHANGED cvars

\* lines 255-276, 303-318: the first upload of the image bytes
image_upload(r) ==
    /\ mode = "submit" /\ pc = "image_upload"
    /\ wire' = Append(wire,
               Sent(ReqUpload("image", image.id, image.filename, image.content_type, image.data),
                    r))
    /\ IF r.code = 0
       THEN Fail(HTTPException(500, <<"Failed to upload image file: ">>)) /\ UNCHANGED pending
       ELSE IF Ok(r)
       THEN Goto("audio_download") /\ UNCHANGED pending
       ELSE IF FormatRejection("image", r.body)
       THEN /\ Goto("image_reconvert")
            /\ pending' = [NoPending EXCEPT !.code = r.code, !.error_text = r.body]
       ELSE /\ Fail(HTTPException(400, <<"Image upload failed: ">> \o r.body))
            /\ pending' = [NoPending EXCEPT !.code = r.code, !.error_text = r.body]
    /\ UNCHANGED <<mode, image, audio, polls, polled>>
    /\ UNCHANGED svars
    /\ UNCHANGED cvars

\* lines 276-278, 297-302: the converter run after a format rejection
image_reconvert(t) ==
    /\ mode = "submit" /\ pc = "image_reconvert"
    /\ wire' = Append(wire, Sent(ReqConvert("image", image.filename, image.data), ConvertAnswer(t)))
    /\ LET c == convert_image_to_jpeg(image.data, image.filename, t) IN
       /\ pending' = [pending EXCEPT !.data = c.data, !.filename = c.filename]
       /\ IF c.data # image.data
          THEN Goto("image_retry")
          ELSE Fail(HTTPException(400, <<"Image upload failed: ">> \o pending.error_text))
    /\ UNCHANGED <<mode, image, audio, polls, polled>>
    /\ UNCHANGED svars
    /\ UNCHANGED cvars

\* variant of ImageRetryRequest: the original bytes are sent again
ImageRetryRequest_sameBytes(img, pend) ==
    ReqUpload("image", img.id, pend.filename, "image/jpeg", img.data)

\* lines 280-286: what the retry sends
ImageRetryRequest(img, pend) ==
    ReqUpload("image", img.id, pend.filename, "image/jpeg", pend.data)

\* variant of AudioRetryRequest: the retry goes to an asset record of its own
AudioRetryRequest_newAsset(aud, pend) ==
    ReqUpload("audio", "asset-retry", pend.filename, "audio/mpeg", pend.data)

\* lines 522-528: what the retry sends
AudioRetryRequest(aud, pend) ==
    ReqUpload("audio", aud.id, pend.filename, "audio/mpeg", pend.data)

\* variant of image_retry: a rejected retry is not raised
image_retry_goesOn(r) ==
    /\ mode = "submit" /\ pc = "image_retry"
    /\ wire' = Append(wire, Sent(ImageRetryRequest(image, pending), r))
    /\ IF r.code = 0
       THEN Fail(HTTPException(500, <<"Failed to upload image file: ">>))
       ELSE Goto("audio_download")
    /\ UNCHANGED <<mode, image, audio, pending, polls, polled>>
    /\ UNCHANGED svars
    /\ UNCHANGED cvars

\* lines 279-296: the one retry, with the converted bytes as image/jpeg
image_retry(r) ==
    /\ mode = "submit" /\ pc = "image_retry"
    /\ wire' = Append(wire, Sent(ImageRetryRequest(image, pending), r))
    /\ IF r.code = 0
       THEN Fail(HTTPException(500, <<"Failed to upload image file: ">>))
       ELSE IF Ok(r)
       THEN Goto("audio_download")
       ELSE Fail(HTTPException(400,
                <<"Image upload failed even after format conversion: ">> \o r.body))
    /\ UNCHANGED <<mode, image, audio, pending, polls, polled>>
    /\ UNCHANGED svars
    /\ UNCHANGED cvars

\* lines 320-457: fetch the audio, check its size, the S3 check, resolve
\* its type and name
audio_download(d) ==
    /\ mode = "submit" /\ pc = "audio_download"
    /\ wire' = Append(wire, Sent(ReqDownload("audio", d.url), DownloadAnswer(d)))
    /\ LET sn == AudioSniff(d.url, d.declared, d.data)
           got == [url |-> d.url, data |-> d.data, filename |-> sn.filename,
                   content_type |-> sn.content_type, id |-> Absent] IN
       IF d.code = 0 \/ d.code >= 400
       THEN /\ Fail(HTTPException(400,
                    IF d.url.s3 THEN <<"Failed to access S3 audio file: ">>
                    ELSE <<"Failed to download audio: ">>))
            /\ audio' = [NoAsset EXCEPT !.url = d.url,
                                        !.filename = Basename(d.url, Name("input", ".mp3"))]
       ELSE IF d.data.len < MinSize
       THEN /\ Fail(HTTPException(400, <<"Audio file appears to be invalid or inaccessible.">>))
            /\ audio' = [NoAsset EXCEPT !.url = d.url, !.data = d.data,
                                        !.filename = Basename(d.url, Name("input", ".mp3")),
                                        !.content_type =
                                            IF d.declared = Absent THEN "audio/mpeg" ELSE d.declared]
       ELSE IF S3Error(d.url, d.data)
       THEN /\ Fail(HTTPException(400, <<"S3 access error.">>))
            /\ audio' = [NoAsset EXCEPT !.url = d.url, !.data = d.data,
                                        !.filename = Basename(d.url, Name("input", ".mp3")),
                                        !.content_type = AudioDeclared(d.url, d.declared)]
       ELSE /\ audio' = got
            /\ IF ~AudioAccepted(sn.content_type) THEN Goto("audio_preconvert")
               ELSE Goto("audio_create")
    /\ UNCHANGED <<mode, image, pending, polls, polled>>
    /\ UNCHANGED svars
    /\ UNCHANGED cvars

\* lines 461-467: convert an audio the remote does not take
audio_preconvert(t) ==
    /\ mode = "submit" /\ pc = "audio_preconvert"
    /\ wire' = Append(wire, Sent(ReqConvert("audio", audio.filename, audio.data), ConvertAnswer(t)))
    /\ LET c == convert_audio_to_mp3(audio.data, audio.filename, t) IN
       audio' = [audio EXCEPT !.data = c.data, !.filename = c.filename,
                              !.content_type = "audio/mpeg"]
    /\ Goto("audio_create")
    /\ UNCHANGED <<mode, image, pending, polls, polled>>
    /\ UNCHANGED svars
    /\ UNCHANGED cvars

\* lines 472-495
audio_create(r) ==
    /\ mode = "submit" /\ pc = "audio_create"
    /\ wire' = Append(wire, Sent(ReqCreate("audio", CreateName(audio)), r))
    /\ IF r.code = 0
       THEN Fail(HTTPException(500, <<"Failed to create audio asset: ">>)) /\ UNCHANGED audio
       ELSE IF ~Ok(r)
       THEN Fail(HTTPException(400, <<"Audio asset creation failed: ">> \o r.body))
            /\ UNCHANGED audio
       ELSE IF ~r.json \/ r.id = Absent
       THEN Fail(HTTPException(500, <<"Failed to create audio asset: ">>)) /\ UNCHANGED audio
       ELSE Goto("audio_upload") /\ audio' = [audio EXCEPT !.id = r.id]
    /\ UNCHANGED <<mode, image, pending, polls, polled>>
    /\ UNCHANGED svars
    /\ UNCHANGED cvars

\* lines 497-518, 545-560: the first upload of the audio bytes
audio_upload(r) ==
    /\ mode = "submit" /\ pc = "audio_upload"
    /\ wire' = Append(wire,
               Sent(ReqUpload("audio", audio.id, audio.filename, audio.content_type, audio.data),
                    r))
    /\ IF r.code = 0
       THEN Fail(HTTPException(500, <<"Failed to upload audio file: ">>)) /\ UNCHANGED pending
       ELSE IF Ok(r)
       THEN Goto("generation") /\ UNCHANGED pending
       ELSE IF FormatRejection("audio", r.body)
       THEN /\ Goto("audio_reconvert")
            /\ pending' = [NoPending EXCEPT !.code = r.code, !.error_text = r.body]
       ELSE /\ Fail(HTTPException(400, <<"Audio upload failed: ">> \o r.body))
            /\ pending' = [NoPending EXCEPT !.code = r.code, !.error_text = r.body]
    /\ UNCHANGED <<mode, image, audio, polls, polled>>
    /\ UNCHANGED svars
    /\ UNCHANGED cvars

\* lines 518-520, 539-544: the converter run after a format rejection
audio_reconvert(t) ==
    /\ mode = "submit" /\ pc = "audio_reconvert"
    /\ wire' = Append(wire, Sent(ReqConvert("audio", audio.filename, audio.data), ConvertAnswer(t)))
    /\ LET c == convert_audio_to_mp3(audio.data, audio.filename, t) IN
       /\ pending' = [pending EXCEPT !.data = c.data, !.filename = c.filename]
       /\ IF c.data # audio.data
          THEN Goto("audio_retry")
          ELSE Fail(HTTPException(400, <<"Audio upload failed: ">> \o pending.error_text))
    /\ UNCHANGED <<mode, image, audio, polls, polled>>
    /\ UNCHANGED svars
    /\ UNCHANGED cvars

\* lines 521-538: the one retry, with the converted bytes as audio/mpeg
audio_retry(r) ==
    /\ mode = "submit" /\ pc = "audio_retry"
    /\ wire' = Append(wire, Sent(AudioRetryRequest(audio, pending), r))
    /\ IF r.code = 0
       THEN Fail(HTTPException(500, <<"Failed to upload audio file: ">>))
       ELSE IF Ok(r)
       THEN Goto("generation")
       ELSE Fail(HTTPException(400,
                <<"Audio upload failed even after format conversion: ">> \o r.body))
    /\ UNCHANGED <<mode, image, audio, pending, polls, polled>>
    /\ UNCHANGED svars
    /\ UNCHANGED cvars

\* variant of start_generation: a rejected submission is sent again
start_generation_again(request_data, r) ==
    /\ mode = "submit" /\ pc = "generation"
    /\ wire' = Append(wire,
               Sent(ReqGeneration(request_data, image.id, audio.id),
                    r))
    /\ IF r.code = 0
       THEN Fail(HTTPException(500, <<"Failed to start generation: ">>))
       ELSE IF ~Ok(r)
       THEN Goto("generation")
       ELSE IF ~r.json \/ r.id = Absent
       THEN Fail(HTTPException(500, <<"Failed to start generation: ">>))
       ELSE /\ pc' = "returned"
            /\ reply' = <<SubmitSuccess(r.id)>>
            /\ UNCHANGED raised
    /\ UNCHANGED <<mode, image, audio, pending, polls, polled>>
    /\ UNCHANGED svars
    /\ UNCHANGED cvars

\* lines 562-602 and 631-637: build the payload, submit it once, return the id
start_generation(request_data, r) ==
    /\ mode = "submit" /\ pc = "generation"
    /\ wire' = Append(wire,
               Sent(ReqGeneration(request_data, image.id, audio.id),
                    r))
    /\ IF r.code = 0
       THEN Fail(HTTPException(500, <<"Failed to start generation: ">>))
       ELSE IF ~Ok(r)
       THEN Fail(HTTPException(400, <<"Generation creation failed: ">> \o r.body))
       ELSE IF ~r.json \/ r.id = Absent
       THEN Fail(HTTPException(500, <<"Failed to start generation: ">>))
       ELSE /\ pc' = "returned"
            /\ reply' = <<SubmitSuccess(r.id)>>
            /\ UNCHANGED raised
    /\ UNCHANGED <<mode, image, audio, pending, polls, polled>>
    /\ UNCHANGED svars
    /\ UNCHANGED cvars

SubmitNext ==
    \/ \E r \in ModelsResponses : models_lookup(r)
    \/ \E d \in ImageDownloads : image_download(d)
    \/ \E t \in ConvertOutcomes : image_preconvert(t)
    \/ \E r \in AssetResponses : image_create(r)
    \/ \E r \in UploadResponses : image_upload(r)
    \/ \E t \in ConvertOutcomes : image_reconvert(t)
    \/ \E r \in UploadResponses : image_retry(r)
    \/ \E d \in AudioDownloads : audio_download(d)
    \/ \E t \in ConvertOutcomes : audio_preconvert(t)
    \/ \E r \in AssetResponses : audio_create(r)
    \/ \E r \in UploadResponses : audio_upload(r)
    \/ \E t \in ConvertOutcomes : audio_reconvert(t)
    \/ \E r \in UploadResponses : audio_retry(r)
    \/ \E q \in Requests, r \in GenerationResponses : start_generation(q, r)

(***************************************************************************)
(* generate_video (blocking mode, hedra_video.py), called by               *)
(* process_video_generation, which turns every exception into a 500 whose  *)
(* detail is str(e).                                                       *)
(***************************************************************************)
\* variant of BlockingFailure: the exception is not caught, the framework
\* answers with its own 500
BlockingFailure_uncaught(e) ==
    [http |-> 500, detail |-> <<"Internal Server Error">>, body |-> << >>]

\* process_video_generation, lines 760-764
BlockingFailure(e) == [http |-> 500, detail |-> StrOf(e), body |-> << >>]

\* process_video_generation, lines 756-759
BlockingSuccess(result) ==
    [http |-> 200, detail |-> << >>, body |-> << [status |-> "success", data |-> result] >>]

BFail(e) ==
    /\ pc' = "failed"
    /\ raised' = <<e>>
    /\ reply' = <<BlockingFailure(e)>>

\* response.raise_for_status() of requests: "<code> Client/Server Error: ..."
HTTPError(code) == Exception("HTTPError", <<ToString(code), " Error">>)

\* hedra_video.py lines 62-65: no status check; [0]["id"] of the body
b_models_lookup(r) ==
    /\ mode = "blocking" /\ pc = "models"
    /\ wire' = Append(wire, Sent(ReqModels, r))
    /\ IF r.code = 0 THEN BFail(Exception("ConnectionError", <<"connection error">>))
       ELSE IF ~r.json THEN BFail(Exception("JSONDecodeError", <<"not json">>))
       ELSE IF r.id = Absent THEN BFail(Exception("IndexError", <<"list index out of range">>))
       ELSE Goto("b_image_download")
    /\ UNCHANGED <<mode, image, audio, pending, polls, polled>>
    /\ UNCHANGED svars
    /\ UNCHANGED cvars

\* lines 67-70: the bytes are taken as they come
b_image_download(d) ==
    /\ mode = "blocking" /\ pc = "b_image_download"
    /\ wire' = Append(wire, Sent(ReqDownload("image", d.url), DownloadAnswer(d)))
    /\ IF d.code = 0
       THEN BFail(Exception("ConnectionError", <<"connection error">>)) /\ UNCHANGED image
       ELSE IF d.code >= 400
       THEN BFail(HTTPError(d.code)) /\ UNCHANGED image
       ELSE /\ Goto("b_image_create")
            /\ image' = [NoAsset EXCEPT !.url = d.url, !.data = d.data]
    /\ UNCHANGED <<mode, audio, pending, polls, polled>>
    /\ UNCHANGED svars
    /\ UNCHANGED cvars

\* lines 73-83: a rejected creation is logged (the log line reads the JSON
\* body), not raised; then ["id"] of the body is read whatever the status
b_image_create(r) ==
    /\ mode = "blocking" /\ pc = "b_image_create"
    /\ wire' = Append(wire, Sent(ReqCreate("image", Name("input_image", ".jpg")), r))
    /\ IF r.code = 0
       THEN BFail(Exception("ConnectionError", <<"connection error">>)) /\ UNCHANGED image
       ELSE IF ~r.json
       THEN BFail(Exception("JSONDecodeError", <<"not json">>)) /\ UNCHANGED image
       ELSE IF r.id = Absent
       THEN BFail(Exception("KeyError", <<"'id'">>)) /\ UNCHANGED image
       ELSE Goto("b_image_upload") /\ image' = [image EXCEPT !.id = r.id]
    /\ UNCHANGED <<mode, audio, pending, polls, polled>>
    /\ UNCHANGED svars
    /\ UNCHANGED cvars

\* line 84: files={"file": image_data}, then raise_for_status()
b_image_upload(r) ==
    /\ mode = "blocking" /\ pc = "b_image_upload"
    /\ wire' = Append(wire,
               Sent(ReqUpload("image", image.id, Name("file", ""), Absent, image.data),
                    r))
    /\ IF r.code = 0 THEN BFail(Exception("ConnectionError", <<"connection error">>))
       ELSE IF ~Ok(r) THEN BFail(HTTPError(r.code))
       ELSE Goto("b_audio_download")
    /\ UNCHANGED <<mode, image, audio, pending, polls, polled>>
    /\ UNCHANGED svars
    /\ UNCHANGED cvars

\* lines 87-90
b_audio_download(d) ==
    /\ mode = "blocking" /\ pc = "b_audio_download"
    /\ wire' = Append(wire, Sent(ReqDownload("audio", d.url), DownloadAnswer(d)))
    /\ IF d.code = 0
       THEN BFail(Exception("ConnectionError", <<"connection error">>)) /\ UNCHANGED audio
       ELSE IF d.code >= 400
       THEN BFail(HTTPError(d.code)) /\ UNCHANGED audio
       ELSE /\ Goto("b_audio_create")
            /\ audio' = [NoAsset EXCEPT !.url = d.url, !.data = d.data]
    /\ UNCHANGED <<mode, image, pending, polls, polled>>
    /\ UNCHANGED svars
    /\ UNCHANGED cvars

\* lines 93-95: no status check at all; ["id"] of the body
b_audio_create(r) ==
    /\ mode = "blocking" /\ pc = "b_audio_create"
    /\ wire' = Append(wire, Sent(ReqCreate("audio", Name("input_audio", ".mp3")), r))
    /\ IF r.code = 0
       THEN BFail(Exception("ConnectionError", <<"connection error">>)) /\ UNCHANGED audio
       ELSE IF ~r.json
       THEN BFail(Exception("JSONDecodeError", <<"not json">>)) /\ UNCHANGED audio
       ELSE IF r.id = Absent
       THEN BFail(Exception("KeyError", <<"'id'">>)) /\ UNCHANGED audio
       ELSE Goto("b_audio_upload") /\ audio' = [audio EXCEPT !.id = r.id]
    /\ UNCHANGED <<mode, image, pending, polls, polled>>
    /\ UNCHANGED svars
    /\ UNCHANGED cvars

\* line 96
b_audio_upload(r) ==
    /\ mode = "blocking" /\ pc = "b_audio_upload"
    /\ wire' = Append(wire,
               Sent(ReqUpload("audio", audio.id, Name("file", ""), Absent, audio.data),
                    r))
    /\ IF r.code = 0 THEN BFail(Exception("ConnectionError", <<"connection error">>))
       ELSE IF ~Ok(r) THEN BFail(HTTPError(r.code))
       ELSE Goto("b_generation")
    /\ UNCHANGED <<mode, image, audio, pending, polls, polled>>
    /\ UNCHANGED svars
    /\ UNCHANGED cvars

\* lines 99-121: no status check; ["id"] of the body
b_start_generation(request_data, r) ==
    /\ mode = "blocking" /\ pc = "b_generation"
    /\ wire' = Append(wire,
               Sent(ReqGeneration(request_data, image.id, audio.id),
                    r))
    /\ IF r.code = 0
       THEN BFail(Exception("ConnectionError", <<"connection error">>)) /\ UNCHANGED job_id
       ELSE IF ~r.json
       THEN BFail(Exception("JSONDecodeError", <<"not json">>)) /\ UNCHANGED job_id
       ELSE IF r.id = Absent
       THEN BFail(Exception("KeyError", <<"'id'">>)) /\ UNCHANGED job_id
       ELSE Goto("b_poll") /\ job_id' = <<r.id>>
    /\ UNCHANGED <<mode, image, audio, pending, polls, polled>>
    /\ UNCHANGED <<spc, sreq, hedra, view, queries, obs>>
    /\ UNCHANGED cvars

\* variant of BlockingResult: the url is left out of the result
BlockingResult_noUrl(status_response) ==
    [ status     |-> status_response.status,
      video_url  |-> Absent,
      type       |-> status_response.type,
      created_at |-> status_response.created_at ]

\* lines 133-139: what the loop's last answer becomes
BlockingResult(status_response) ==
    [ status     |-> status_response.status,
      video_url  |-> status_response.url,
      type       |-> status_response.type,
      created_at |-> status_response.created_at ]

\* Number of polls of the blocking loop one behaviour holds.
MaxPolls == 2

\* The answers of the status endpoint the blocking loop is given: those of
\* StatusResponses that differ in something the loop reads.
BlockingPolls ==
    { r \in StatusResponses :
        /\ r.code \in {0, 200}
        /\ r.data.progress = Absent
        /\ r.data.updated_at = Absent
        /\ r.data.error_message # Null
        /\ r.data.status # "pending"
        /\ r.data.status # "complete" => r.data.url = Absent /\ r.data.created_at = "t0"
        /\ r.data.status # "error" => r.data.error_message = Absent }

\* The downloads generate_video is given: it reads the answer's code and
\* bytes only.
BlockingDownloads(kind) ==
    { d \in (IF kind = "image" THEN ImageDownloads ELSE AudioDownloads) :
        /\ d.url.name.ext \in {".jpg", ".mp3"}
        /\ d.data.marker = "none" }

\* variant of LoopExit: an unrecognised status ends the loop as well
LoopExit_anyUnknown == {"complete", "error", "cancelled"}

\* line 128: the statuses that end the loop
LoopExit == {"complete", "error"}

\* lines 123-145: one turn of `while True`: poll, leave the loop on
\* complete/error, otherwise sleep 5 seconds and poll again
b_poll(r) ==
    /\ mode = "blocking" /\ pc = "b_poll"
    /\ polls < MaxPolls
    /\ polls' = polls + 1
    /\ wire' = Append(wire,
               Sent(Req("GET status", Absent, NoName, Absent, NoBytes, job_id[1], << >>),
                    PollAnswer(r)))
    /\ IF r.code = 0
       THEN BFail(Exception("ConnectionError", <<"connection error">>)) /\ UNCHANGED polled
       ELSE IF ~r.json
       THEN BFail(Exception("JSONDecodeError", <<"not json">>)) /\ UNCHANGED polled
       ELSE IF r.data.status = Absent
       THEN BFail(Exception("KeyError", <<"'status'">>)) /\ polled' = <<r.data>>
       ELSE /\ polled' = <<r.data>>
            /\ IF r.data.status \notin LoopExit
               THEN Goto("b_poll")
               ELSE IF r.data.status = "complete" /\ Truthy(Get(r.data.url))
               THEN IF r.data.type = Absent \/ r.data.created_at = Absent
                    THEN BFail(Exception("KeyError", <<"'created_at'">>))
                    ELSE /\ pc' = "returned"
                         /\ reply' = <<BlockingSuccess(BlockingResult(r.data))>>
                         /\ UNCHANGED raised
               ELSE IF r.data.status = "error"
               THEN BFail(Exception("Exception",
                        <<"Video generation failed: ",
                          IF r.data.error_message = Absent THEN "Unknown error"
                          ELSE r.data.error_message>>))
               ELSE BFail(Exception("Exception",
                        <<"Video generation finished with status '", r.data.status,
                          "' but no download URL was found.">>))
    /\ UNCHANGED <<mode, image, audio, pending>>
    /\ UNCHANGED <<spc, job_id, sreq, hedra, view, queries, obs>>
    /\ UNCHANGED cvars

BlockingNext ==
    \/ \E r \in ModelsResponses : b_models_lookup(r)
    \/ \E d \in BlockingDownloads("image") : b_image_download(d)
    \/ \E r \in AssetResponses : b_image_create(r)
    \/ \E r \in UploadResponses : b_image_upload(r)
    \/ \E d \in BlockingDownloads("audio") : b_audio_download(d)
    \/ \E r \in AssetResponses : b_audio_create(r)
    \/ \E r \in UploadResponses : b_audio_upload(r)
    \/ \E q \in Requests, r \in GenerationResponses : b_start_generation(q, r)
    \/ \E r \in BlockingPolls : b_poll(r)

(***************************************************************************)
(* convert_audio_to_mp3 / convert_image_to_jpeg, step by step.             *)
(* Two calls (Runs) go through the function at the same time, as two       *)
(* requests served by two workers on one host do; what they share is the   *)
(* temporary directory tmp.  Every system call's outcome is the            *)
(* environment's.                                                          *)
(***************************************************************************)
Runs == {1, 2}

\* the random part of the names tempfile hands out
TempNames == {"tmp1", "tmp2"}

\* a path in the temporary directory: the input file written by
\* NamedTemporaryFile (out = FALSE) or the same path with ".mp3" / ".jpg"
\* appended, which ffmpeg writes (out = TRUE)
Paths == [base : TempNames, out : BOOLEAN]
InputPath(b) == [base |-> b, out |-> FALSE]
OutputPath(b) == [base |-> b, out |-> TRUE]

\* a file: its content and the run that wrote it last (0: there is no file)
File(content, by) == [content |-> content, by |-> by]
Missing == File(NoBytes, 0)

\* the locals of one call
NoRun ==
    [pc |-> "idle", kind |-> Absent, data |-> NoBytes, original_filename |-> NoName,
     made |-> << >>, input_path |-> << >>, output_path |-> << >>, returncode |-> << >>,
     exc |-> FALSE, result |-> << >>, ret |-> << >>,
     version |-> "none", write |-> "none", run |-> "none", read |-> "none",
     unlink |-> "none"]

\* the payloads handed to the converter
ConvertCalls ==
    { [kind |-> "image", data |-> Bytes(RiffWebpHead, 5000, "none"),
       filename |-> Name("photo", ".webp")],
      [kind |-> "image", data |-> Bytes(GifHead, 100, "none"),
       filename |-> Name("image", ".gif")],
      [kind |-> "audio", data |-> Bytes(RiffWaveHead, 5000, "none"),
       filename |-> Name("voice", ".wav")],
      [kind |-> "audio", data |-> Bytes(XmlHead, 100, "none"),
       filename |-> Name("voice", ".ogg")] }

OutputHead(kind) == IF kind = "image" THEN JpegHead ELSE Id3Head
OutputName(kind) == IF kind = "image" THEN Name("image", ".jpg") ELSE Name("audio", ".mp3")

\* return audio_data, original_filename
Original(c) == [data |-> c.data, filename |-> c.original_filename]

\* variant of TempName: the input is written under one fixed name
TempName_fixed(p, b) == b = "tmp1"

\* lines 779 / 832, tempfile.NamedTemporaryFile(delete=False): a name that
\* does not exist (O_EXCL) out of 8 random characters, taken never to have
\* been handed out before
TempName(p, b) ==
    /\ tmp[InputPath(b)] = Missing
    /\ \A q \in Runs : conv[q].made # <<b>>

\* the function is entered
convert_call(p, c) ==
    /\ conv[p].pc = "idle"
    /\ conv' = [conv EXCEPT ![p] = [NoRun EXCEPT !.pc = "version", !.kind = c.kind,
                                                 !.data = c.data,
                                                 !.original_filename = c.filename]]
    /\ UNCHANGED tmp
    /\ UNCHANGED <<svars, pvars>>

\* lines 773-776 / 826-829: subprocess.run(['ffmpeg', '-version']); v is
\* "ok", "nonzero" or "missing" (no such program: FileNotFoundError)
ffmpeg_version(p, v) ==
    /\ conv[p].pc = "version"
    /\ conv' = [conv EXCEPT ![p] =
            CASE v = "ok" -> [@ EXCEPT !.pc = "mktemp", !.version = v]
              [] v = "nonzero" -> [@ EXCEPT !.pc = "returned", !.version = v,
                                            !.ret = <<Original(conv[p])>>]
              [] OTHER -> [@ EXCEPT !.pc = "except", !.version = v, !.exc = TRUE]]
    /\ UNCHANGED tmp
    /\ UNCHANGED <<svars, pvars>>

\* lines 779-783 / 832-836: create the input file, write the payload, keep
\* its name; w is "ok", "create_raises" or "write_raises".  input_path is
\* assigned after the write, and the try/finally that unlinks starts after
\* the with block.
make_input(p, b, w) ==
    /\ conv[p].pc = "mktemp"
    /\ TempName(p, b)
    /\ CASE w = "ok" ->
              /\ tmp' = [tmp EXCEPT ![InputPath(b)] = File(conv[p].data, p)]
              /\ conv' = [conv EXCEPT ![p] = [@ EXCEPT !.pc = "run", !.write = w,
                                                       !.made = <<b>>,
                                                       !.input_path = <<InputPath(b)>>,
                                                       !.output_path = <<OutputPath(b)>>]]
         [] w = "write_raises" ->
              /\ tmp' = [tmp EXCEPT ![InputPath(b)] = File(NoBytes, p)]
              /\ conv' = [conv EXCEPT ![p] = [@ EXCEPT !.pc = "except", !.write = w,
                                                       !.made = <<b>>, !.exc = TRUE]]
         [] OTHER ->
              /\ tmp' = tmp
              /\ conv' = [conv EXCEPT ![p] = [@ EXCEPT !.pc = "except", !.write = w,
                                                       !.exc = TRUE]]
    /\ UNCHANGED <<svars, pvars>>

\* what ffmpeg can do with the file it is given
RunOutcomes == {"raises", "nonzero", "partial", "no_output", "converted", "identical"}

\* lines 785-794 / 838-847: subprocess.run(cmd); ffmpeg reads input_path
\* and, with -y, writes output_path over whatever is there
ffmpeg_run(p, r) ==
    LET c == conv[p]
        in == tmp[c.input_path[1]]
        out == c.output_path[1] IN
    /\ c.pc = "run"
    /\ in = Missing => r \in {"raises", "nonzero"}
    /\ tmp' = CASE r = "converted" ->
                     [tmp EXCEPT ![out] = File(Reencoded(in.content, OutputHead(c.kind)), p)]
                [] r = "identical" -> [tmp EXCEPT ![out] = File(in.content, p)]
                [] r = "partial" -> [tmp EXCEPT ![out] = File(NoBytes, p)]
                [] OTHER -> tmp
    /\ conv' = [conv EXCEPT ![p] =
            CASE r = "raises" -> [@ EXCEPT !.pc = "finally", !.run = r, !.exc = TRUE]
              [] r \in {"nonzero", "partial"} ->
                    [@ EXCEPT !.pc = "read", !.run = r, !.returncode = <<1>>]
              [] OTHER -> [@ EXCEPT !.pc = "read", !.run = r, !.returncode = <<0>>]]
    /\ UNCHANGED <<svars, pvars>>

\* lines 796-804 / 849-857: read the output when ffmpeg said 0 and the
\* output exists, else fall back; rd is "ok" or "raises" (open/read fails)
read_output(p, rd) ==
    LET c == conv[p]
        out == tmp[c.output_path[1]] IN
    /\ c.pc = "read"
    /\ conv' = [conv EXCEPT ![p] =
            IF c.returncode = <<0>> /\ out # Missing
            THEN IF rd = "ok"
                 THEN [@ EXCEPT !.pc = "finally", !.read = rd,
                                !.result = <<[data |-> out.content,
                                              filename |-> OutputName(c.kind)]>>]
                 ELSE [@ EXCEPT !.pc = "finally", !.read = rd, !.exc = TRUE]
            ELSE [@ EXCEPT !.pc = "finally", !.read = "skipped",
                           !.result = <<Original(c)>>]]
    /\ UNCHANGED tmp
    /\ UNCHANGED <<svars, pvars>>

\* leaving the finally block: the pending exception goes on to the outer
\* handler, a pending return value is returned
Leave(c) ==
    IF c.exc THEN [c EXCEPT !.pc = "except"]
    ELSE [c EXCEPT !.pc = "returned", !.ret = c.result]

\* lines 806-813 / 859-866: os.unlink(input_path); u is "ok" or "raises".
\* A raise is swallowed by the bare except of line 812 / 865, which also
\* skips the unlink of the output.
unlink_input(p, u) ==
    LET c == conv[p] IN
    /\ c.pc = "finally"
    /\ tmp[c.input_path[1]] = Missing => u = "raises"
    /\ IF u = "ok"
       THEN /\ tmp' = [tmp EXCEPT ![c.input_path[1]] = Missing]
            /\ conv' = [conv EXCEPT ![p] = [@ EXCEPT !.pc = "unlink_output"]]
       ELSE /\ tmp' = tmp
            /\ conv' = [conv EXCEPT ![p] = Leave([c EXCEPT !.unlink = u])]
    /\ UNCHANGED <<svars, pvars>>

\* lines 810-811 / 863-864: if os.path.exists(output_path): os.unlink(..)
unlink_output(p, u) ==
    LET c == conv[p] IN
    /\ c.pc = "unlink_output"
    /\ tmp[c.output_path[1]] = Missing => u = "ok"
    /\ tmp' = IF tmp[c.output_path[1]] # Missing /\ u = "ok"
              THEN [tmp EXCEPT ![c.output_path[1]] = Missing]
              ELSE tmp
    /\ conv' = [conv EXCEPT ![p] = Leave([c EXCEPT !.unlink = u])]
    /\ UNCHANGED <<svars, pvars>>

\* variant of convert_except: the exception leaves the function
convert_except_propagates(p) ==
    /\ conv[p].pc = "except"
    /\ conv' = [conv EXCEPT ![p] = [@ EXCEPT !.pc = "raised"]]
    /\ UNCHANGED tmp
    /\ UNCHANGED <<svars, pvars>>

\* lines 815-817 / 868-870: except Exception: return the input
convert_except(p) ==
    /\ conv[p].pc = "except"
    /\ conv' = [conv EXCEPT ![p] = [@ EXCEPT !.pc = "returned", !.exc = FALSE,
                                             !.ret = <<Original(conv[p])>>]]
    /\ UNCHANGED tmp
    /\ UNCHANGED <<svars, pvars>>

ConvertNext ==
    \E p \in Runs :
        \/ \E c \in ConvertCalls : convert_call(p, c)
        \/ \E v \in {"ok", "nonzero", "missing"} : ffmpeg_version(p, v)
        \/ \E b \in TempNames, w \in {"ok", "create_raises", "write_raises"} :
              make_input(p, b, w)
        \/ \E r \in RunOutcomes : ffmpeg_run(p, r)
        \/ \E rd \in {"ok", "raises"} : read_output(p, rd)
        \/ \E u \in {"ok", "raises"} : unlink_input(p, u)
        \/ \E u \in {"ok", "raises"} : unlink_output(p, u)
        \/ convert_except(p)

\* no call in progress, an empty temporary directory
ConverterIdle ==
    /\ conv = [p \in Runs |-> NoRun]
    /\ tmp = [f \in Paths |-> Missing]

(***************************************************************************)
(* Specifications                                                          *)
(***************************************************************************)
StatusIdle ==
    /\ spc = "idle"
    /\ job_id = << >>
    /\ sreq = 0
    /\ hedra = [code |-> 0, json |-> FALSE, data |-> NoBody]
    /\ view = Raised(0, << >>)
    /\ queries = 0
    /\ obs = NoObs

PipelineIdle ==
    /\ pc = "models"
    /\ image = NoAsset
    /\ audio = NoAsset
    /\ pending = NoPending
    /\ wire = << >>
    /\ raised = << >>
    /\ reply = << >>
    /\ polls = 0
    /\ polled = << >>

\* a client polling one job through GET /video-generation/status/{job_id}
StatusInit == StatusIdle /\ PipelineIdle /\ ConverterIdle /\ mode = "submit"

StatusNext ==
    \/ \E raw \in RawJobIds : get_job_status_call(raw)
    \/ \E r \in StatusResponses : get_job_status_reply(r)

SpecStatus == StatusInit /\ [][StatusNext]_vars

\* one request to POST /video-generation/submit (mode "submit") or to
\* POST /video-generation (mode "blocking")
Init == StatusIdle /\ PipelineIdle /\ ConverterIdle /\ mode \in {"submit", "blocking"}

Next == SubmitNext \/ BlockingNext

Spec == Init /\ [][Next]_vars

\* The answers given to a client whose every answer and outcome is logged:
\* those of StatusResponses with the creation time present and without
\* update time and error message, and two failures.
RepeatResponses ==
    { r \in StatusResponses :
        \/ /\ r.json
           /\ r.data.status \in {"processing", "complete", "error", "cancelled"}
           /\ r.data.created_at = "t0"
           /\ r.data.updated_at = Absent
           /\ r.data.error_message = Absent
           /\ r.data.url # ""
        \/ ~r.json /\ r.code \in {0, 404} }

\* a client polling one job, with a logging observer
RepeatInit ==
    /\ spc = "idle"
    /\ job_id = << >>
    /\ sreq = 0
    /\ hedra = [code |-> 0, json |-> FALSE, data |-> NoBody]
    /\ view = Raised(0, << >>)
    /\ queries = 0
    /\ obs = [NoObs EXCEPT !.logging = TRUE]
    /\ PipelineIdle
    /\ ConverterIdle
    /\ mode = "submit"

RepeatNext ==
    \/ \E raw \in RawJobIds : get_job_status_call(raw)
    \/ \E r \in RepeatResponses : get_job_status_reply(r)

SpecRepeat == RepeatInit /\ [][RepeatNext]_vars

(***************************************************************************)
(* The ingestion steps of start_hedra_generation over every combination of *)
(* URL name, Content-Type header, leading bytes and size below.            *)
(***************************************************************************)
ExifHead == <<255, 216, 255, 225>>
MpegSyncHead2 == <<255, 243, 144, 0>>

PayloadSizes == {MinSize - 1, MinSize, 5000}

IngestImageNames ==
    { NoName, Name("pic", ""), Name("photo", ".jpg"), Name("photo", ".JPG"),
      Name("photo", ".png"), Name("photo", ".webp"), Name("anim", ".gif") }

IngestImageHeaders ==
    { Absent, "", "application/octet-stream", "image/jpeg", "image/jpg", "image/png",
      "image/webp", "image/gif", "text/html" }

IngestImageHeads ==
    { JpegHead, ExifHead, PngHead, RiffWebpHead, RiffWaveHead, GifHead, XmlHead }

IngestImageDownloads ==
    { Download(Url(FALSE, n), 200, ct, Bytes(h, l, "none")) :
        n \in IngestImageNames, ct \in IngestImageHeaders,
        h \in IngestImageHeads, l \in PayloadSizes }

IngestAudioNames ==
    { NoName, Name("voice", ""), Name("voice", ".mp3"), Name("voice", ".MP3"),
      Name("voice", ".wav"), Name("voice", ".m4a"), Name("voice", ".ogg"),
      Name("rec", ".webm"), Name("clip", ".mp4") }

IngestAudioHeaders ==
    { Absent, "", "application/octet-stream", "audio/mpeg", "audio/mp3", "audio/wav",
      "audio/x-wav", "audio/mp4", "audio/ogg", "audio/webm", "video/webm", "video/mp4",
      "text/html" }

IngestAudioHeads ==
    { Id3Head, MpegSyncHead, MpegSyncHead2, RiffWaveHead, RiffWebpHead, EbmlHead, XmlHead }

IngestAudioDownloads ==
    { Download(Url(FALSE, n), 200, ct, Bytes(h, l, "none")) :
        n \in IngestAudioNames, ct \in IngestAudioHeaders,
        h \in IngestAudioHeads, l \in PayloadSizes }

\* the one image behind which the audio steps are explored
IngestImage ==
    Download(Url(FALSE, Name("photo", ".jpg")), 200, "image/jpeg", Bytes(JpegHead, 5000, "none"))

\* an upload that is accepted
UploadAccepted == Resp(200, TRUE, << >>, Absent)

\* the answers to the create-asset request: one success, one rejection
IngestAssetResponses ==
    { Resp(200, TRUE, << >>, "asset-1"),
      Resp(400, TRUE, <<"Invalid", "asset", "type">>, Absent) }

IngestNext ==
    \/ \E r \in ModelsResponses : models_lookup(r)
    \/ \E d \in IngestImageDownloads : image_download(d)
    \/ \E t \in ConvertOutcomes : image_preconvert(t)
    \/ \E r \in IngestAssetResponses : image_create(r)
    \/ image_upload(UploadAccepted)
    \/ /\ Len(wire) >= 2
       /\ wire[2] = Sent(ReqDownload("image", IngestImage.url), DownloadAnswer(IngestImage))
       /\ image.data = IngestImage.data
       /\ \E d \in IngestAudioDownloads : audio_download(d)
    \/ \E t \in ConvertOutcomes : audio_preconvert(t)
    \/ \E r \in IngestAssetResponses : audio_create(r)
    \/ audio_upload(UploadAccepted)

\* one request to POST /video-generation/submit
IngestInit == StatusIdle /\ PipelineIdle /\ ConverterIdle /\ mode = "submit"

SpecIngest == IngestInit /\ [][IngestNext]_vars

\* the two usage modes side by side: a client polling a submitted job
\* through get_job_status (mode "submit"), or one request to the blocking
\* endpoint (mode "blocking")
ModesNext ==
    \/ mode = "submit" /\ StatusNext
    \/ BlockingNext

SpecModes == Init /\ [][ModesNext]_vars

\* two calls of the converter at the same time
ConvertInit == StatusIdle /\ PipelineIdle /\ ConverterIdle /\ mode = "submit"

SpecConvert == ConvertInit /\ [][ConvertNext]_vars

\* the two endpoints of the submit-then-poll mode, one request at a time:
\* a request to POST /video-generation/submit, or a client polling
\* GET /video-generation/status/{job_id}; the two handlers share no state
EndpointsInit == StatusIdle /\ PipelineIdle /\ ConverterIdle /\ mode = "submit"

EndpointsNext ==
    \/ spc = "idle" /\ queries = 0 /\ SubmitNext
    \/ wire = << >> /\ StatusNext

SpecEndpoints == EndpointsInit /\ [][EndpointsNext]_vars

\* A query has returned a job object.
Returned == spc = "done" /\ view.job # << >>
Job == view.job[1]

(***************************************************************************)
(* Claims about get_job_status                                             *)
(***************************************************************************)

\* C1: a single status query maps queued -> queued, processing -> processing,
\* complete -> completed, error -> failed and every other remote status to
\* processing; an unrecognised remote status never yields failed and never
\* attaches an error.
C1_StatusVocabulary ==
    Returned =>
        /\ hedra.data.status = "queued"     => Job.status = "queued"
        /\ hedra.data.status = "processing" => Job.status = "processing"
        /\ hedra.data.status = "complete"   => Job.status = "completed"
        /\ hedra.data.status = "error"      => Job.status = "failed"
        /\ hedra.data.status \in UnknownRemoteStatuses =>
              /\ Job.status = "processing"
              /\ Job.error = << >>

C1_Witness ==
    /\ Returned
    /\ hedra.data.status = "cancelled"
    /\ hedra.data.error_message = "invalid keyframe"
    /\ Job.status = "processing"

\* C2 as stated: result is present iff status is completed, for every remote
\* response, a 'complete' one without url included.
C2_ResultIffCompleted ==
    Returned => (Job.result # << >> <=> Job.status = "completed")

\* C2 amended: result is present iff status is completed and the remote
\* response carries a non-empty url; a job object that has a result is
\* completed, a completed one without a remote url has none.
C2_ResultIffCompletedWithUrl ==
    Returned =>
        /\ Job.result # << >> <=>
              (Job.status = "completed" /\ Truthy(hedra.data.url))
        /\ Job.result # << >> => Job.result[1].video_url = hedra.data.url

C2_Witness ==
    /\ Returned
    /\ hedra.data.status = "complete"
    /\ hedra.data.url = Absent
    /\ Job.status = "completed"
    /\ Job.result = << >>

\* C3: error is present iff status is failed.
C3_ErrorIffFailed ==
    Returned => (Job.error # << >> <=> Job.status = "failed")

C3_Witness ==
    /\ Returned
    /\ Job.status = "failed"
    /\ Job.error = <<"Generation failed: ", "invalid keyframe">>

\* C4 as stated: whatever the remote reports, no query returns a status
\* earlier in queued < processing < {completed, failed} than an earlier query.
C4_NeverGoesBack == ~obs.wentBack

\* C4 amended: the local status never goes back as long as the remote
\* reports only its recognised statuses and never one earlier in
\* queued < processing < {complete, error} than one it reported before.
C4_ForwardWhileRemoteForward == obs.remoteForward => ~obs.wentBack

C4_Witness ==
    /\ Returned
    /\ obs.remoteForward
    /\ obs.returned = 3
    /\ obs.maxRank = 2
    /\ obs.terminal = "failed"
    /\ obs.sinceTerminal = 0

\* C5 as stated: once a query has returned completed or failed, every later
\* query returns that same status.
C5_TerminalIsFinal == ~obs.leftTerminal

\* C5 amended: once a query has returned completed or failed, every later
\* query returns that same status as long as the remote keeps reporting the
\* same status (whatever else changes in its answers).
C5_TerminalWhileRemoteHeld == obs.remoteHeld => ~obs.leftTerminal

C5_Witness ==
    /\ Returned
    /\ obs.remoteHeld
    /\ obs.terminal = "completed"
    /\ obs.sinceTerminal >= 1
    /\ hedra.data.url = Absent

\* A remote answer that is not a usable status body.
RemoteFailed(r) == r.code = 0 \/ r.code >= 400 \/ ~r.json \/ r.data.status = Absent

\* C6: remote 404 -> JobNotFound (404); remote 422 -> InvalidJobId (422);
\* every other remote failure -> the generic 500; and a failed query has
\* sent exactly one remote request.  (A usable remote body is answered
\* with the job object, or with 500 when the response model refuses it.)
C6_ErrorOutcomes ==
    spc = "done" =>
        /\ hedra.code = 404 => view.http = 404 /\ view.job = << >>
        /\ hedra.code = 422 => view.http = 422 /\ view.job = << >>
        /\ (RemoteFailed(hedra) /\ hedra.code \notin {404, 422}) =>
              view.http = 500 /\ view.job = << >>
        /\ ~RemoteFailed(hedra) =>
              view.http \in {200, 500} /\ (view.http = 200 <=> view.job # << >>)
        /\ sreq = 1

C6_Witness ==
    /\ spc = "done"
    /\ hedra.code = 422
    /\ view.http = 422
    /\ view.detail = <<"Invalid job ID format: ", "gen-1">>
    /\ sreq = 1

(***************************************************************************)
(* Reading the wire: the requests of one asset kind                        *)
(***************************************************************************)
Kinds == {"image", "audio"}

\* positions in wire of the requests `op` made for asset kind k
At(op, k) == { i \in 1..Len(wire) : wire[i].op = op /\ wire[i].kind = k }

Min(S) == CHOOSE i \in S : \A j \in S : i <= j
Max(S) == CHOOSE i \in S : \A j \in S : i >= j

Uploads(k) == At("upload", k)

\* converter runs started after the first upload of kind k
ConvertsAfterUpload(k) ==
    { i \in At("convert", k) : Uploads(k) # {} /\ i > Min(Uploads(k)) }

\* the handler is no longer between a rejected upload of kind k and its retry
Settled(k) ==
    pc \notin (IF k = "image" THEN {"image_reconvert", "image_retry"}
                              ELSE {"audio_reconvert", "audio_retry"})

\* an HTTP answer that is not a success
Rejected(a) == a.code >= 400

CanonicalType(k) == IF k = "image" THEN "image/jpeg" ELSE "audio/mpeg"
CanonicalName(k) == IF k = "image" THEN Name("image", ".jpg") ELSE Name("audio", ".mp3")
CanonicalHead(k) == IF k = "image" THEN JpegHead ELSE Id3Head
UploadFailed(k) ==
    IF k = "image" THEN <<"Image upload failed: ">> ELSE <<"Audio upload failed: ">>

\* the answer says the format is unsupported or invalid
SaysBadFormat(a) == Contains(a.body, "unsupported") \/ Contains(a.body, "invalid")

\* the words the code looks for, per kind
LooksForWords(k, a) ==
    Contains(a.body, "unsupported") \/ (k = "image" /\ Contains(a.body, "invalid"))

(***************************************************************************)
(* Claims about the uploads of start_hedra_generation                      *)
(***************************************************************************)

\* C7 as stated: whenever the first upload of an asset is rejected with an
\* answer saying the format is unsupported or invalid, the converter runs
\* once and the upload is retried exactly once with the converted payload
\* and the canonical content type, also when the converter is unavailable
\* or returns its input.
C7_AlwaysRetries ==
    \A k \in Kinds :
        ( /\ mode = "submit" /\ Settled(k) /\ Uploads(k) # {}
          /\ Rejected(wire[Min(Uploads(k))].answer)
          /\ SaysBadFormat(wire[Min(Uploads(k))].answer) )
        => /\ Cardinality(ConvertsAfterUpload(k)) = 1
           /\ Cardinality(Uploads(k)) = 2
           /\ wire[Max(Uploads(k))].content_type = CanonicalType(k)

\* C7 amended: when the first upload is rejected and the answer holds
\* "unsupported" (for an image also "invalid"), the converter runs once; if
\* its output differs from its input the upload is retried exactly once,
\* to the same asset id, with the converted bytes, the canonical name and
\* the canonical content type; otherwise (converter unavailable, failed, or
\* output equal to input) there is no retry and the first rejection is
\* raised.  Any other rejection starts no converter run and no retry.
C7_RetriesWhenConverted ==
    \A k \in Kinds :
        (mode = "submit" /\ Settled(k) /\ Uploads(k) # {}
            /\ Rejected(wire[Min(Uploads(k))].answer))
        => LET first == wire[Min(Uploads(k))]
               last  == wire[Max(Uploads(k))] IN
           IF LooksForWords(k, first.answer)
           THEN /\ Cardinality(ConvertsAfterUpload(k)) = 1
                /\ LET run == wire[Min(ConvertsAfterUpload(k))] IN
                   IF run.answer.body = <<"converted">>
                   THEN /\ Cardinality(Uploads(k)) = 2
                        /\ Max(Uploads(k)) = Min(ConvertsAfterUpload(k)) + 1
                        /\ last.id = first.id
                        /\ last.content_type = CanonicalType(k)
                        /\ last.name = CanonicalName(k)
                        /\ last.data.head = CanonicalHead(k)
                        /\ last.data.enc = first.data.enc + 1
                   ELSE /\ Cardinality(Uploads(k)) = 1
                        /\ pc = "failed"
                        /\ raised[1].status_code = 400
                        /\ raised[1].detail = UploadFailed(k) \o first.answer.body
           ELSE /\ Cardinality(ConvertsAfterUpload(k)) = 0
                /\ Cardinality(Uploads(k)) = 1

C7_Witness ==
    /\ mode = "submit"
    /\ pc = "generation"
    /\ Cardinality(Uploads("audio")) = 2
    /\ Contains(wire[Min(Uploads("audio"))].answer.body, "unsupported")
    /\ wire[Max(Uploads("audio"))].content_type = "audio/mpeg"
    /\ wire[Max(Uploads("audio"))].data.enc = 2
    /\ Cardinality(Uploads("image")) = 2

\* an answer that refuses the caller, not the file
AuthorizationFailure(a) == a.code \in {401, 403}

\* C8: an upload rejected for a reason unrelated to format (an
\* authorization failure, whatever its body says) is not retried and starts
\* no converter run: one upload attempt, then the error.
C8_NoRetryOnAuthFailure ==
    \A k \in Kinds :
        ( /\ mode = "submit" /\ Uploads(k) # {}
          /\ AuthorizationFailure(wire[Min(Uploads(k))].answer) )
        => /\ Cardinality(Uploads(k)) = 1
           /\ ConvertsAfterUpload(k) = {}
           /\ pc = "failed"

\* no generation request was sent
NoGeneration == \A i \in 1..Len(wire) : wire[i].op # "POST /generations"

\* C9: per asset the upload is attempted at most twice; when the second
\* attempt fails too the request ends with an error and no generation
\* request is sent.
C9_AtMostTwoUploads ==
    \A k \in Kinds :
        /\ Cardinality(Uploads(k)) <= 2
        /\ ( /\ mode = "submit"
             /\ Cardinality(Uploads(k)) = 2
             /\ ~Ok(wire[Max(Uploads(k))].answer) )
           => /\ pc = "failed"
              /\ raised # << >>
              /\ reply # << >> /\ reply[1].http = 500 /\ reply[1].body = << >>
              /\ Max(Uploads(k)) = Len(wire)
              /\ NoGeneration

C9_Witness ==
    /\ mode = "submit"
    /\ pc = "failed"
    /\ Cardinality(Uploads("image")) = 2
    /\ Cardinality(Uploads("audio")) = 2
    /\ wire[Len(wire)].op = "upload"
    /\ wire[Len(wire)].answer.code = 415
    /\ raised[1].detail =
          <<"Audio upload failed even after format conversion: ", "Unsupported", "mime", "type">>

\* the words of `body` appear, in order and together, in `detail`
CarriesBody(detail, body) ==
    \E i \in 0..(Len(detail) - Len(body)) : SubSeq(detail, i + 1, i + Len(body)) = body

\* the remote status code appears in `detail`
CarriesCode(detail, code) == \E i \in 1..Len(detail) : detail[i] = ToString(code)

\* positions of the requests that create an asset record or upload bytes
\* and whose answer, a non-success, the handler did not retry
FinalRejections ==
    { i \in 1..Len(wire) :
        /\ wire[i].op \in {"POST /assets", "upload"}
        /\ Rejected(wire[i].answer)
        /\ wire[i].op = "upload" =>
              Settled(wire[i].kind) /\ i = Max(Uploads(wire[i].kind)) }

\* C10: in both modes a non-success answer to the create-asset request or
\* to the (last) upload raises an error that carries the remote status code
\* and body, and the pipeline sends nothing after it.
C10_RejectionRaisesWithCodeAndBody ==
    \A i \in FinalRejections :
        /\ pc = "failed"
        /\ raised # << >>
        /\ CarriesCode(raised[1].detail, wire[i].answer.code)
        /\ CarriesBody(raised[1].detail, wire[i].answer.body)
        /\ \A j \in (i + 1)..Len(wire) : wire[j].op = "convert"

\* C10, its last part alone: nothing is sent after the rejection
C10_NothingAfterRejection ==
    \A i \in FinalRejections :
        /\ pc = "failed"
        /\ \A j \in (i + 1)..Len(wire) : wire[j].op = "convert"

\* C10 in submit mode, without the status code
C10_SubmitRaisesWithBody ==
    mode = "submit" =>
        \A i \in FinalRejections :
            /\ pc = "failed"
            /\ raised # << >>
            /\ CarriesBody(raised[1].detail, wire[i].answer.body)
            /\ \A j \in (i + 1)..Len(wire) : wire[j].op = "convert"

(***************************************************************************)
(* Reading the wire: the steps of one asset                                *)
(***************************************************************************)
\* the asset record of kind k as the handler holds it
Asset(k) == IF k = "image" THEN image ELSE audio

\* the download of kind k was answered with a success
Fetched(k) ==
    /\ At("download", k) # {}
    /\ Ok(wire[Min(At("download", k))].answer)

\* the size-validation error of kind k (lines 139-144, 344-349)
SizeError(k) ==
    HTTPException(400,
        IF k = "image" THEN <<"Image file appears to be invalid or inaccessible.">>
        ELSE <<"Audio file appears to be invalid or inaccessible.">>)

\* the payload of kind k, as downloaded, is shorter than the minimum
TooSmall(k) == Fetched(k) /\ Asset(k).data.enc = 0 /\ Asset(k).data.len < MinSize

(***************************************************************************)
(* Claims about ingestion and submission                                   *)
(***************************************************************************)

\* C11: in both modes, a downloaded payload shorter than 100 bytes ends the
\* request with the size-validation error before any asset record is
\* created for it; a payload of exactly 100 bytes passes the size check.
C11_SmallPayloadFails ==
    \A k \in Kinds :
        /\ TooSmall(k) =>
              /\ pc = "failed"
              /\ raised = <<SizeError(k)>>
              /\ At("POST /assets", k) = {}
        /\ (Fetched(k) /\ Asset(k).data.enc = 0 /\ Asset(k).data.len >= MinSize) =>
              raised # <<SizeError(k)>>

\* C11 in submit mode alone
C11_SubmitSmallPayloadFails ==
    mode = "submit" =>
        \A k \in Kinds :
            /\ TooSmall(k) =>
                  /\ pc = "failed"
                  /\ raised = <<SizeError(k)>>
                  /\ At("POST /assets", k) = {}
            /\ (Fetched(k) /\ Asset(k).data.enc = 0 /\ Asset(k).data.len >= MinSize) =>
                  raised # <<SizeError(k)>>

\* a payload of exactly the minimum size went on to its asset record
C11_SubmitWitness ==
    /\ mode = "submit"
    /\ audio.data.len = MinSize
    /\ At("POST /assets", "audio") # {}
    /\ image.data.len = MinSize

\* positions in wire of the generation requests
Generations == { i \in 1..Len(wire) : wire[i].op = "POST /generations" }

\* the converter runs of kind k made before its first upload
ConvertsBeforeUpload(k) == At("convert", k) \ ConvertsAfterUpload(k)

\* a create-asset answer that is a success and names the new record
Created(a) == Ok(a) /\ a.json /\ a.id # Absent

\* asset kind k is ready at position g: its record exists and its bytes
\* were uploaded to that record with a success, both before g
Ready(k, g) ==
    \E i \in At("POST /assets", k), j \in Uploads(k) :
        /\ i < j /\ j < g
        /\ Created(wire[i].answer)
        /\ wire[j].id = wire[i].answer.id
        /\ Ok(wire[j].answer)

\* the steps of asset kind k are in the order fetch (and sniff), convert,
\* create record, upload, each behind the success of the one before
InOrder(k) ==
    /\ Cardinality(At("download", k)) <= 1
    /\ Cardinality(At("POST /assets", k)) <= 1
    /\ Cardinality(ConvertsBeforeUpload(k)) <= 1
    /\ \A c \in ConvertsBeforeUpload(k) :
          /\ Fetched(k) /\ Min(At("download", k)) < c
          /\ \A i \in At("POST /assets", k) : c < i
    /\ \A i \in At("POST /assets", k) :
          Fetched(k) /\ Min(At("download", k)) < i
    /\ \A j \in Uploads(k) :
          /\ At("POST /assets", k) # {}
          /\ Min(At("POST /assets", k)) < j
          /\ Created(wire[Min(At("POST /assets", k))].answer)
          /\ wire[j].id = wire[Min(At("POST /assets", k))].answer.id

\* C12: a generation request is sent only after both assets have an asset
\* id and a successful upload; within one asset the steps fetch, sniff,
\* transcode, create record, upload come in that order, each started only
\* after the previous one finished successfully (both modes).
C12_JoinAndOrder ==
    /\ \A g \in Generations : \A k \in Kinds : Ready(k, g)
    /\ \A k \in Kinds : InOrder(k)

\* C12, the join alone (both modes): behind every generation request each
\* asset has an id, taken from its create answer, and a successful upload
\* to that id
C12_JoinOnly ==
    \A g \in Generations : \A k \in Kinds :
        \E i \in At("POST /assets", k), j \in Uploads(k) :
            /\ i < j /\ j < g
            /\ wire[i].answer.id # Absent
            /\ wire[j].id = wire[i].answer.id
            /\ Ok(wire[j].answer)

\* C12 in submit mode alone
C12_SubmitJoinAndOrder ==
    mode = "submit" =>
        /\ \A g \in Generations : \A k \in Kinds : Ready(k, g)
        /\ \A k \in Kinds : InOrder(k)

\* a generation request sent behind a converted image and a retried audio
C12_SubmitWitness ==
    /\ mode = "submit"
    /\ Generations # {}
    /\ ConvertsBeforeUpload("image") # {}
    /\ Cardinality(Uploads("audio")) = 2

\* C13: a successful submit returns as job_id exactly the id of the remote
\* generation answer, with status "queued" and a message; no job_id is
\* returned unless the one generation request succeeded, and the request
\* is the last thing the handler sent.
C13_JobIdIsRemoteId ==
    mode = "submit" =>
        /\ (reply # << >> /\ reply[1].body # << >>) =>
              /\ pc = "returned"
              /\ reply[1].http = 200
              /\ Cardinality(Generations) = 1
              /\ Max(Generations) = Len(wire)
              /\ Created(wire[Len(wire)].answer)
              /\ reply[1].body[1].job_id = wire[Len(wire)].answer.id
              /\ reply[1].body[1].status = "queued"
              /\ reply[1].body[1].message # ""
        /\ (Generations # {} /\ ~Created(wire[Max(Generations)].answer)) =>
              /\ pc = "failed"
              /\ reply # << >> /\ reply[1].body = << >>
        /\ Generations = {} => (reply = << >> \/ reply[1].body = << >>)
        /\ pc = "returned" => reply # << >> /\ reply[1].body # << >>

C13_Witness ==
    /\ mode = "submit"
    /\ pc = "returned"
    /\ wire[Len(wire)].answer.id = "gen-2"
    /\ reply[1].body[1].job_id = "gen-2"
    /\ reply[1].body[1].status = "queued"

(***************************************************************************)
(* Reading the wire: the polls of the blocking loop                        *)
(***************************************************************************)
StatusPolls == { i \in 1..Len(wire) : wire[i].op = "GET status" }

\* the "status" of a poll's answer, Absent when it has none
PollStatus(a) == IF a.code # 0 /\ a.json /\ a.body # << >> THEN a.body[1] ELSE Absent

\* the poll reported complete or error
TerminalAnswer(a) == PollStatus(a) \in {"complete", "error"}

\* the poll reported a status, and not a terminal one
PendingAnswer(a) == PollStatus(a) \notin {"complete", "error", Absent}

LastPoll == wire[Max(StatusPolls)].answer

\* every poll but the last one reported a non-terminal status, and nothing
\* was sent after a terminal one
PollsUntilTerminal ==
    \A i \in StatusPolls :
        /\ i < Max(StatusPolls) => PendingAnswer(wire[i].answer)
        /\ TerminalAnswer(wire[i].answer) => i = Len(wire)

NoOutcome == pc = "b_poll" /\ reply = << >> /\ raised = << >>

JobFailed ==
    /\ pc = "failed"
    /\ raised[1].detail[1] = "Video generation failed: "
    /\ reply[1].http = 500 /\ reply[1].body = << >>

(***************************************************************************)
(* Claims about the blocking loop                                          *)
(***************************************************************************)

C15_LoopsWhilePending ==
    (mode = "blocking" /\ StatusPolls # {}) =>
        /\ polls = Cardinality(StatusPolls)
        /\ PendingAnswer(LastPoll) => NoOutcome
        /\ TerminalAnswer(LastPoll) => pc \in {"returned", "failed"} /\ reply # << >>
        /\ pc \in {"returned", "failed"} => ~PendingAnswer(LastPoll)

C15_Witness ==
    /\ mode = "blocking"
    /\ polls = MaxPolls
    /\ NoOutcome
    /\ \A i \in StatusPolls : PollStatus(wire[i].answer) = "cancelled"

(***************************************************************************)
(* Claims about a remote 'complete' without url                            *)
(***************************************************************************)
\* the single poll was answered complete, without a url field
PollCompleteNoUrl ==
    /\ mode = "submit" /\ spc = "done"
    /\ hedra.code = 200 /\ hedra.json
    /\ hedra.data.status = "complete"
    /\ hedra.data.url = Absent

\* the blocking loop's last poll was answered complete, without a url field
LoopCompleteNoUrl ==
    /\ mode = "blocking" /\ StatusPolls # {}
    /\ PollStatus(LastPoll) = "complete"
    /\ polled[1].url = Absent

CompletedNoResult == view.http = 200 /\ view.job # << >>
                     /\ Job.status = "completed" /\ Job.result = << >>
                     /\ Job.error = << >>

C16_PollWitness ==
    /\ PollCompleteNoUrl
    /\ hedra.data.created_at = "t0"
    /\ CompletedNoResult

(***************************************************************************)
(* Claims about repeated status queries                                    *)
(***************************************************************************)

\* C17: two queries for the same job id that receive the same remote
\* answer give the same outcome (the same job object, or the same error),
\* whatever was asked and answered before or in between; each query sends
\* one remote request.
C17_SameAnswerSameObject ==
    /\ \A i, j \in 1..Len(obs.log) :
          obs.log[i].remote = obs.log[j].remote => obs.log[i].view = obs.log[j].view
    /\ spc = "done" => sreq = 1 /\ Len(obs.log) = queries

\* the first and the third query got the same answer, the second another,
\* terminal one
C17_Witness ==
    /\ Len(obs.log) = 3
    /\ obs.log[1].remote = obs.log[3].remote
    /\ obs.log[2].remote # obs.log[1].remote
    /\ obs.log[1].view.job # << >>
    /\ obs.log[1].view.job[1].status = "processing"
    /\ obs.log[2].view.job # << >>
    /\ obs.log[2].view.job[1].status = "completed"
    /\ obs.log[3].view = obs.log[1].view

(***************************************************************************)
(* Claims about the sniffing of start_hedra_generation                     *)
(***************************************************************************)
\* the header the media server of kind k declared
DeclaredHeader(k) == wire[Min(At("download", k))].answer.body[1]

\* the URL name the download of kind k asked for
UrlName(k) == wire[Min(At("download", k))].name

\* the payload of kind k passed the size check and is still as downloaded
AsDownloaded(k) ==
    /\ Fetched(k)
    /\ Asset(k).data.enc = 0
    /\ Asset(k).data.len >= MinSize

\* the handler has just resolved type and name of kind k: the download is
\* the last thing it did
JustSniffed(k) ==
    /\ AsDownloaded(k)
    /\ wire[Len(wire)].op = "download" /\ wire[Len(wire)].kind = k
    /\ pc # "failed"

\* C18: an image payload that starts with FF D8 FF is resolved to
\* image/jpeg whatever the Content-Type header and the URL extension say;
\* it is not converted, and it is uploaded as image/jpeg.
C18_JpegBytesAreJpeg ==
    (AsDownloaded("image") /\ StartsWith(image.data.head, <<255, 216, 255>>)) =>
        /\ image.content_type = "image/jpeg"
        /\ At("convert", "image") = {}
        /\ \A j \in Uploads("image") :
              /\ wire[j].content_type = "image/jpeg"
              /\ wire[j].data = image.data

C18_Witness ==
    /\ AsDownloaded("image")
    /\ image.data.head = ExifHead
    /\ DeclaredHeader("image") = "image/png"
    /\ UrlName("image") = Name("photo", ".webp")
    /\ Uploads("image") # {}
    /\ wire[Max(Uploads("image"))].content_type = "image/jpeg"
    /\ wire[Max(Uploads("image"))].name = Name("image", ".jpg")

\* C19: a payload that begins with RIFF and has WEBP at offset 8 is
\* resolved to WEBP and never to WAV, as an image and as an audio.
C19_RiffWebpIsWebp ==
    \A k \in Kinds :
        (JustSniffed(k) /\ Asset(k).data.head = RiffWebpHead) =>
            /\ Asset(k).content_type \notin {"audio/wav", "audio/x-wav"}
            /\ ~EndsWith(Asset(k).filename, {".wav"})
            /\ k = "image" => Asset(k).content_type = "image/webp"

\* C19 for the image alone
C19_ImageRiffWebpIsWebp ==
    (JustSniffed("image") /\ image.data.head = RiffWebpHead) =>
        /\ image.content_type = "image/webp"
        /\ EndsWith(image.filename, {".webp"})
        /\ pc = "image_preconvert"

C19_ImageWitness ==
    /\ JustSniffed("image")
    /\ image.data.head = RiffWebpHead
    /\ DeclaredHeader("image") = "image/jpeg"
    /\ image.content_type = "image/webp"

\* the leading bytes of the audio as it was downloaded
DownloadedAudioHead ==
    IF ConvertsBeforeUpload("audio") # {}
    THEN wire[Min(ConvertsBeforeUpload("audio"))].data.head
    ELSE wire[Min(Uploads("audio"))].data.head

\* C20: an audio payload that starts with 1A 45 DF A3 is handed to the
\* converter before its first upload; when the converter succeeds the
\* first upload carries the converter's output under the name audio.mp3.
C20_WebmIsTranscoded ==
    (mode = "submit" /\ Uploads("audio") # {} /\ DownloadedAudioHead = EbmlHead) =>
        /\ Cardinality(ConvertsBeforeUpload("audio")) = 1
        /\ wire[Min(ConvertsBeforeUpload("audio"))].answer.body = <<"converted">> =>
              /\ wire[Min(Uploads("audio"))].data.enc = 1
              /\ wire[Min(Uploads("audio"))].data.head = Id3Head
              /\ wire[Min(Uploads("audio"))].name = Name("audio", ".mp3")

\* C20, what happens instead: the first upload carries the bytes as they
\* were downloaded, named .mp3 and declared audio/mpeg, with no converter
\* run before it
C20_WebmIsUploadedAsMp3 ==
    (mode = "submit" /\ Uploads("audio") # {} /\ DownloadedAudioHead = EbmlHead) =>
        /\ ConvertsBeforeUpload("audio") = {}
        /\ wire[Min(Uploads("audio"))].data.enc = 0
        /\ wire[Min(Uploads("audio"))].content_type = "audio/mpeg"
        /\ EndsWith(wire[Min(Uploads("audio"))].name, {".mp3"})

C20_UploadedWitness ==
    /\ mode = "submit"
    /\ Uploads("audio") # {}
    /\ wire[Min(Uploads("audio"))].data.head = EbmlHead
    /\ DeclaredHeader("audio") = "video/webm"
    /\ UrlName("audio") = Name("rec", ".webm")

(***************************************************************************)
(* Upload attempts: the file name and the content type sent with the bytes *)
(***************************************************************************)
\* the extensions that belong to a content type
ExtensionsOf(content_type) ==
    CASE content_type \in {"image/jpeg", "image/jpg"} -> {".jpg", ".jpeg"}
      [] content_type = "image/png"  -> {".png"}
      [] content_type = "image/webp" -> {".webp"}
      [] content_type = "image/gif"  -> {".gif"}
      [] content_type \in {"audio/mpeg", "audio/mp3"} -> {".mp3"}
      [] content_type \in {"audio/wav", "audio/x-wav"} -> {".wav"}
      [] content_type \in {"audio/mp4", "audio/m4a"} -> {".m4a"}
      [] content_type = "audio/aac" -> {".aac"}
      [] content_type = "audio/ogg" -> {".ogg"}
      [] OTHER -> {}

NameAgrees(u) == EndsWith(u.name, ExtensionsOf(u.content_type))

\* C21: at every upload attempt (image and audio, first attempt and retry)
\* the extension of the file name sent agrees with the content type sent,
\* whatever the header, the URL path, the leading bytes and the converter's
\* outcome were.
C21_NameAgreesWithType ==
    \A k \in Kinds : \A i \in Uploads(k) : NameAgrees(wire[i])

\* C21, what the code keeps: a retry carries the converter's canonical name
\* with the canonical type.
C21_RetryNameAgrees ==
    \A k \in Kinds : \A i \in Uploads(k) :
        i # Min(Uploads(k)) => NameAgrees(wire[i]) /\ wire[i].name = CanonicalName(k)

C21_RetryWitness ==
    \E k \in Kinds : \E i \in Uploads(k) : i # Min(Uploads(k))

\* the content types that name the format a payload's leading bytes show,
\* for the signatures of kind k; {} when the bytes show none of them
SignatureTypes(k, data) ==
    LET h == data.head IN
    IF k = "image"
    THEN CASE StartsWith(h, <<255, 216, 255>>) -> {"image/jpeg", "image/jpg"}
           [] StartsWith(h, <<137, 80, 78, 71>>) -> {"image/png"}
           [] h = RiffWebpHead -> {"image/webp"}
           [] StartsWith(h, <<71, 73, 70, 56>>) -> {"image/gif"}
           [] OTHER -> {}
    ELSE CASE h = RiffWaveHead -> {"audio/wav", "audio/x-wav"}
           [] \/ StartsWith(h, <<73, 68, 51>>)
              \/ StartsWith(h, <<255, 251>>)
              \/ StartsWith(h, <<255, 243>>) -> {"audio/mpeg", "audio/mp3"}
           [] StartsWith(h, <<26, 69, 223, 163>>) -> {"audio/webm", "video/webm"}
           [] OTHER -> {}

\* no converter run of kind k reported an output equal to its input
NoIdenticalOutput(k) ==
    \A j \in At("convert", k) : wire[j].answer.body # <<"identical">>

\* C22: at every upload attempt the content type sent names the format of
\* the bytes sent; in particular, after a conversion that fell back to the
\* original bytes the type sent is still that of the original payload.
C22_TypeMatchesBytes ==
    \A k \in Kinds : \A i \in Uploads(k) :
        /\ SignatureTypes(k, wire[i].data) # {}
        /\ NoIdenticalOutput(k)
        => wire[i].content_type \in SignatureTypes(k, wire[i].data)

\* C22, what the code keeps: bytes that the converter re-encoded are sent
\* under the canonical type.
C22_ReencodedTypeMatches ==
    \A k \in Kinds : \A i \in Uploads(k) :
        wire[i].data.enc > 0 => wire[i].content_type \in SignatureTypes(k, wire[i].data)

C22_ReencodedWitness ==
    \E k \in Kinds : \E i \in Uploads(k) : wire[i].data.enc > 0

(***************************************************************************)
(* The converter                                                           *)
(***************************************************************************)
\* every step of call c went well and ffmpeg left an output
Succeeded(c) ==
    /\ c.version = "ok"
    /\ c.write = "ok"
    /\ c.run \in {"converted", "identical"}
    /\ c.read = "ok"

\* C23: the converter never raises; when ffmpeg is missing or fails its
\* version call, exits non-zero, leaves no output, or any step throws, the
\* call returns exactly the bytes and the file name it was given, and only
\* a successful conversion returns the output's bytes under the canonical
\* name image.jpg / audio.mp3.
C23_AlwaysReturns ==
    \A p \in Runs :
        LET c == conv[p] IN
        /\ c.pc # "raised"
        /\ c.pc = "returned" =>
              IF Succeeded(c)
              THEN /\ c.ret[1].filename = OutputName(c.kind)
                   /\ c.ret[1].data = IF c.run = "converted"
                                      THEN Reencoded(c.data, OutputHead(c.kind))
                                      ELSE c.data
              ELSE c.ret = <<[data |-> c.data, filename |-> c.original_filename]>>

\* a call that returned its input after reading the output had thrown, and
\* another that returned a conversion
C23_Witness ==
    \E p, q \in Runs :
        /\ conv[p].pc = "returned" /\ conv[p].read = "raises"
        /\ conv[p].ret = <<Original(conv[p])>>
        /\ conv[q].pc = "returned" /\ Succeeded(conv[q]) /\ conv[q].run = "converted"

\* C24: once a call of the converter has returned, whatever its exit path
\* (success, ffmpeg unavailable, conversion failure, an exception while the
\* input file is written, an exception while a file is deleted), no
\* temporary file it created exists any more.
C24_NoTempFileRemains ==
    \A p \in Runs :
        conv[p].pc = "returned" => \A f \in Paths : tmp[f].by # p

\* C24, what the code keeps: a call whose input file was written whole and
\* whose unlink calls did not fail leaves nothing behind.
C24_CleanUnlessWriteOrUnlinkFails ==
    \A p \in Runs :
        /\ conv[p].pc = "returned"
        /\ conv[p].write # "write_raises"
        /\ conv[p].unlink # "raises"
        => \A f \in Paths : tmp[f].by # p

C24_CleanWitness ==
    \E p \in Runs :
        /\ conv[p].pc = "returned"
        /\ conv[p].run = "partial"
        /\ conv[p].unlink = "ok"

(***************************************************************************)
(* The generation payload                                                  *)
(***************************************************************************)
\* the generation requests sent, with the caller's request and the payload
GenerationsSent == { i \in 1..Len(wire) : wire[i].op = "POST /generations" }

Abs(n) == IF n < 0 THEN -n ELSE n

\* ms is an integer nearest to a duration held in microseconds
NearestMs(ms, duration) == 2 * Abs(1000 * ms - duration) <= 1000

\* C25: a duration supplied in seconds is sent as duration_ms, the duration
\* times 1000 rounded to the nearest integer (not truncated).
C25_DurationIsRounded ==
    \A i \in GenerationsSent :
        LET q == wire[i].request[1]
            sent == wire[i].payload[1] IN
        q.duration # << >> =>
            /\ sent.duration_ms # << >>
            /\ NearestMs(sent.duration_ms[1], q.duration[1])

\* C25, what the code keeps: duration_ms is the duration times 1000 with
\* the fraction dropped.
C25_DurationIsTruncated ==
    \A i \in GenerationsSent :
        LET q == wire[i].request[1]
            sent == wire[i].payload[1] IN
        q.duration # << >> =>
            /\ sent.duration_ms # << >>
            /\ 1000 * sent.duration_ms[1] <= q.duration[1]
            /\ q.duration[1] < 1000 * (sent.duration_ms[1] + 1)

C25_TruncatedWitness ==
    \E i \in GenerationsSent :
        /\ wire[i].request[1].duration = <<1000700>>
        /\ wire[i].payload[1].duration_ms = <<1000>>

C27_ErrorText ==
    Returned /\ hedra.data.status = "error" =>
        /\ Job.status = "failed"
        /\ Job.error = << "Generation failed: ",
                          IF hedra.data.error_message \in {Absent, Null}
                          THEN "Unknown error occurred"
                          ELSE hedra.data.error_message >>

\* C27, what the code keeps: the default text stands in for a missing
\* field only.
C27_ErrorTextUnlessNull ==
    Returned /\ hedra.data.status = "error" /\ hedra.data.error_message # Null =>
        /\ Job.status = "failed"
        /\ Job.error = << "Generation failed: ",
                          IF hedra.data.error_message = Absent
                          THEN "Unknown error occurred"
                          ELSE hedra.data.error_message >>

C27_DefaultWitness ==
    /\ Returned
    /\ hedra.data.status = "error"
    /\ hedra.data.error_message = Absent
    /\ Job.error = <<"Generation failed: ", "Unknown error occurred">>

\* a field of the job object holds a value
Present(v) == v \notin {Absent, Null}

\* C30: in every job object get_job_status returns, completed_at is
\* present only when the status is completed or failed.
C30_CompletedAtOnlyWhenTerminal ==
    Returned /\ Present(Job.completed_at) => Job.status \in {"completed", "failed"}

\* a failed job returned with its completed_at
C30_Witness ==
    /\ Returned
    /\ Present(Job.completed_at)
    /\ Job.status = "failed"

(***************************************************************************)
(* Downloads and the generation request: sent once                         *)
(***************************************************************************)
\* the request at position i was the handler's last, and the handler ended
\* by raising
EndedAt(i) == i = Len(wire) /\ pc = "failed" /\ raised # << >>

C28_DownloadWitness ==
    \E i \in At("download", "audio") :
        /\ wire[i].answer.code >= 400
        /\ Uploads("image") # {}
        /\ EndedAt(i)

Convert(kind, data, filename, t) ==
    IF kind = "image" THEN convert_image_to_jpeg(data, filename, t)
    ELSE convert_audio_to_mp3(data, filename, t)

\* what the environment did to call c alone, as one of ConvertOutcomes
Outcome(c) ==
    IF Succeeded(c) THEN c.run
    ELSE IF c.version # "ok" THEN "unavailable"
    ELSE "failed"

\* call c has its input on disk and has not started to clean up
Working(c) == c.pc \in {"run", "read"}

\* C29: two requests share no mutable local state.  Under every
\* interleaving of two converter calls in one temporary directory, each
\* call finds in its input file the bytes it wrote, reads back the output
\* its own ffmpeg run wrote, and returns what it would return alone, that
\* is the converter's result for its own payload and the outcome of its
\* own steps.
C29_CallsDoNotInterfere ==
    \A p \in Runs :
        LET c == conv[p] IN
        /\ Working(c) => tmp[c.input_path[1]] = File(c.data, p)
        /\ c.pc = "read" /\ c.run \in {"converted", "identical", "partial"} =>
              tmp[c.output_path[1]].by = p
        /\ c.pc = "returned" =>
              c.ret = <<Convert(c.kind, c.data, c.original_filename, Outcome(c))>>

\* both calls at work at once on different payloads, each with its input
\* and its output on disk
C29_Witness ==
    /\ \A p \in Runs : conv[p].pc = "read" /\ conv[p].run = "converted"
    /\ conv[1].data # conv[2].data
    /\ conv[1].kind = conv[2].kind

\* both calls have returned a conversion after having been at work together
C29_BothReturned ==
    /\ \A p \in Runs : conv[p].pc = "returned" /\ Succeeded(conv[p])
    /\ conv[1].data # conv[2].data

(***************************************************************************)
(* get_job_status: the timestamps of the job object                        *)
(***************************************************************************)
\* the remote update timestamp when the answer has one, its creation
\* timestamp otherwise (null when it has neither)
UpdateElseCreation ==
    IF hedra.data.updated_at \notin {Absent, Null, ""}
    THEN hedra.data.updated_at
    ELSE IF hedra.data.created_at = Absent THEN Null ELSE hedra.data.created_at

\* C31: every job object with status completed or failed carries
\* completed_at, the remote update timestamp when it is present and the
\* remote creation timestamp otherwise.
C31_CompletedAtWhenTerminal ==
    Returned /\ Job.status \in {"completed", "failed"} =>
        /\ Job.completed_at # Absent
        /\ Job.completed_at = UpdateElseCreation

\* C31 amended: a failed job, and a completed job whose remote answer has a
\* non-empty url, carry completed_at with that value; a completed job
\* without url carries no completed_at, as it carries no result.
C31_CompletedAtWithResultOrError ==
    /\ Returned /\ (Job.status = "failed" \/ Job.result # << >>) =>
          /\ Job.completed_at # Absent
          /\ Job.completed_at = UpdateElseCreation
    /\ Returned /\ Job.status = "completed" /\ Job.result = << >> =>
          Job.completed_at = Absent

\* a completed job with a result, stamped with the creation timestamp for
\* want of an update timestamp
C31_Witness ==
    /\ Returned
    /\ Job.status = "completed"
    /\ Job.result # << >>
    /\ hedra.data.updated_at = Absent
    /\ Job.completed_at = "t0"

\* C32: in every job object get_job_status returns, started_at is absent
\* when the status is queued; when the status is processing it is attached,
\* with the update timestamp if present and the creation timestamp
\* otherwise.
C32_StartedAt ==
    Returned =>
        /\ Job.status = "queued" => Job.started_at = Absent
        /\ Job.status = "processing" =>
              /\ Job.started_at # Absent
              /\ Job.started_at = UpdateElseCreation

\* a processing job stamped with the update timestamp, and a queued job
\* left without started_at
C32_Witness ==
    /\ Returned
    /\ Job.status = "processing"
    /\ hedra.data.updated_at = "t1"
    /\ hedra.data.created_at = "t0"
    /\ Job.started_at = "t1"

C32_QueuedWitness ==
    /\ Returned
    /\ Job.status = "queued"
    /\ hedra.data.updated_at = "t1"
    /\ Job.started_at = Absent

(***************************************************************************)
(* Storage-service error pages                                             *)
(***************************************************************************)
\* the body downloaded for kind k from a storage-service URL holds an error
\* marker (the body is the asset's payload, or what was handed to the
\* converter before the payload was replaced)
S3ErrorBody(k) ==
    /\ Fetched(k)
    /\ Asset(k).url.s3
    /\ \/ Asset(k).data.marker # "none"
       \/ \E j \in At("convert", k) : wire[j].data.marker # "none"

\* the error of lines 198-203 / 363-368
S3AccessError == HTTPException(400, <<"S3 access error.">>)

\* C33: for a storage-service URL whose downloaded body holds an error
\* marker, the submit fails with the download error, no asset record is
\* created and no byte of the body is uploaded; the check comes first: the
\* converter is not run on the body.
C33_S3ErrorFailsFast ==
    \A k \in Kinds :
        mode = "submit" /\ S3ErrorBody(k) =>
            /\ At("convert", k) = {}
            /\ At("POST /assets", k) = {}
            /\ Uploads(k) = {}
            /\ pc \in {"failed", "returned"} => raised = <<S3AccessError>>

\* C33 for the audio alone, whose check precedes every other step
C33_AudioS3ErrorFailsFast ==
    mode = "submit" /\ S3ErrorBody("audio") =>
        /\ At("convert", "audio") = {}
        /\ At("POST /assets", "audio") = {}
        /\ Uploads("audio") = {}
        /\ pc = "failed"
        /\ raised = <<S3AccessError>>

C33_AudioWitness ==
    /\ mode = "submit"
    /\ S3ErrorBody("audio")
    /\ raised = <<S3AccessError>>

\* C33 for the image, what the code keeps: the body itself is never
\* uploaded
C33_ImageErrorBodyNotUploaded ==
    mode = "submit" =>
        \A i \in Uploads("image") : wire[i].data.marker = "none"

\* the default content type of kind k
DefaultType(k) == IF k = "image" THEN "image/jpeg" ELSE "audio/mpeg"

\* no signature test of kind k's sniffer matches the payload
NoSignature(k) ==
    LET h == Asset(k).data.head IN
    IF k = "image"
    THEN /\ ~StartsWith(h, <<255, 216, 255>>)
         /\ ~StartsWith(h, <<137, 80, 78, 71>>)
         /\ h # RiffWebpHead
         /\ ~StartsWith(h, <<71, 73, 70, 56>>)
    ELSE /\ ~StartsWith(h, <<82, 73, 70, 70>>)
         /\ ~StartsWith(h, <<73, 68, 51>>)
         /\ ~StartsWith(h, <<255, 251>>)
         /\ ~StartsWith(h, <<255, 243>>)
         /\ ~StartsWith(h, <<26, 69, 223, 163>>)

\* C34: when no signature matches, the content type is the declared
\* Content-Type header if there is one and it is not generic
\* (application/octet-stream); otherwise the type guessed from the
\* extension of the URL path; otherwise the kind's default.  A response
\* without Content-Type header whose URL has a known extension gets the
\* extension's type, not the default.
C34_ResolutionOrder ==
    \A k \in Kinds :
        JustSniffed(k) /\ NoSignature(k) =>
            Asset(k).content_type =
                IF DeclaredHeader(k) \notin {Absent, "", "application/octet-stream"}
                THEN DeclaredHeader(k)
                ELSE get_content_type_from_url(Asset(k).url, DefaultType(k))

\* C34 for the image, what the code keeps: a missing header is replaced by
\* the default before the URL is looked at, an empty or generic header
\* gives way to the URL's extension.
C34_ImageOrderAfterHeaderDefault ==
    JustSniffed("image") /\ NoSignature("image") =>
        image.content_type =
            IF DeclaredHeader("image") = Absent THEN "image/jpeg"
            ELSE IF DeclaredHeader("image") \in {"", "application/octet-stream"}
            THEN get_content_type_from_url(image.url, "image/jpeg")
            ELSE DeclaredHeader("image")

C34_ImageWitness ==
    /\ JustSniffed("image") /\ NoSignature("image")
    /\ DeclaredHeader("image") = "application/octet-stream"
    /\ UrlName("image") = Name("photo", ".png")
    /\ image.content_type = "image/png"

(***************************************************************************)
(* Claims about the fields every job object carries                        *)
(***************************************************************************)
\* the remote answered with a usable status body
UsableBody == spc = "done" /\ ~RemoteFailed(hedra)

\* the four fields of the job object as lines 700-705 build them
BaseFields ==
    /\ Job.job_id = job_id
    /\ Job.status = OurStatus(hedra.data)
    /\ Job.created_at = Get(hedra.data.created_at)
    /\ Job.progress = (IF hedra.data.progress = Absent THEN "0.0"
                       ELSE PyStr(hedra.data.progress))

\* C35: every remote body with a status field, one without created_at
\* included, is answered with a job object carrying job_id, status,
\* created_at and progress, progress being the string form of the remote
\* value and "0.0" when the remote body has none.
C35_BaseFieldsForEveryBody == UsableBody => Returned /\ BaseFields

\* What the code keeps: the job objects that are returned carry the four
\* fields, and a body is answered with one exactly when its created_at is
\* neither missing nor null.
C35_BaseFieldsWhenCreatedAtPresent ==
    /\ Returned => BaseFields /\ Present(Job.created_at)
    /\ UsableBody => (Returned <=> Present(hedra.data.created_at))

C35_RefusedWitness ==
    /\ UsableBody
    /\ hedra.data.created_at = Absent
    /\ view.http = 500
    /\ view.job = << >>

(***************************************************************************)
(* Claims comparing the two modes                                          *)
(***************************************************************************)
\* an upload as start_hedra_generation sends it: bytes that passed the
\* minimum-size check, under an explicit content type
IngestedUpload(u) == u.content_type # Absent /\ u.data.len >= MinSize

\* C36: up to the join point the blocking operation is the pipeline of the
\* submit operation: in either mode every upload carries bytes that passed
\* the minimum-size check and an explicit content type.
C36_SameIngestionInBothModes ==
    \A k \in Kinds : \A i \in Uploads(k) : IngestedUpload(wire[i])

\* What the code keeps: the uploads of the submit operation are ingested
\* ones; those of the blocking operation carry the downloaded bytes as
\* they came, with no content type and under no name of their own.
C36_IngestionByMode ==
    \A k \in Kinds : \A i \in Uploads(k) :
        IF mode = "submit" THEN IngestedUpload(wire[i])
        ELSE /\ wire[i].content_type = Absent
             /\ wire[i].data = Asset(k).data

C36_BlockingWitness ==
    /\ mode = "blocking"
    /\ pc = "b_audio_download"
    /\ \E i \in Uploads("image") :
          wire[i].data.len < MinSize /\ wire[i].content_type = Absent

(***************************************************************************)
(* Claims about the order of the remote requests of a submit               *)
(***************************************************************************)
\* the model-list lookup gave no model id: a transport or HTTP error, a
\* body that is not JSON, or an empty list
LookupFailed(a) == a.code = 0 \/ a.code >= 400 \/ ~a.json \/ a.id = Absent

\* C37: the model-list lookup is the first remote request of a submit; the
\* id it returns is never the ai_model_id of the generation payload, which
\* is always the fixed identifier; and after a failed or empty lookup the
\* request has aborted with nothing downloaded and no asset record created.
C37_ModelLookupFirstAndDiscarded ==
    (mode = "submit" /\ wire # << >>) =>
        /\ wire[1].op = "GET /models"
        /\ \A i \in GenerationsSent :
              /\ wire[i].payload[1].ai_model_id = ModelId
              /\ wire[i].payload[1].ai_model_id # wire[1].answer.id
        /\ LookupFailed(wire[1].answer) =>
              /\ Len(wire) = 1
              /\ pc = "failed"
              /\ reply[1].http = 500

C37_Witness ==
    /\ mode = "submit"
    /\ wire # << >>
    /\ wire[1].op = "GET /models"
    /\ wire[1].answer.id = "model-live"
    /\ \E i \in GenerationsSent : wire[i].payload[1].ai_model_id = ModelId

C37_AbortWitness ==
    /\ mode = "submit"
    /\ Len(wire) = 1
    /\ LookupFailed(wire[1].answer)
    /\ pc = "failed"

\* positions in wire of the asset-record creations of kind k
Creations(k) == At("POST /assets", k)

\* C38: per asset the create-asset-record request is sent exactly once:
\* every upload of the asset, a format retry included, goes to the id that
\* one request obtained, and the generation payload carries that same id.
C38_OneAssetRecord ==
    \A k \in Kinds :
        /\ Cardinality(Creations(k)) <= 1
        /\ \A i \in Uploads(k) :
              /\ Cardinality(Creations(k)) = 1
              /\ Min(Creations(k)) < i
              /\ wire[i].id = wire[Min(Creations(k))].answer.id
        /\ \A g \in GenerationsSent :
              /\ Cardinality(Creations(k)) = 1
              /\ (IF k = "image" THEN wire[g].payload[1].start_keyframe_id
                                 ELSE wire[g].payload[1].audio_id)
                    = wire[Min(Creations(k))].answer.id

C38_Witness ==
    /\ mode = "submit"
    /\ Cardinality(Uploads("audio")) = 2
    /\ Cardinality(Creations("audio")) = 1
    /\ wire[Max(Uploads("audio"))].id = wire[Min(Creations("audio"))].answer.id
    /\ \E g \in GenerationsSent :
          wire[g].payload[1].audio_id = wire[Min(Creations("audio"))].answer.id

\* the requests start_hedra_generation sends: none deletes or undoes
PipelineOps == {"GET /models", "download", "convert", "POST /assets", "upload",
                "POST /generations"}

\* the image asset is ingested: its record created, its bytes accepted
ImageIngested(j) ==
    /\ \E c \in Creations("image") : c < j /\ Ok(wire[c].answer)
    /\ \E u \in Uploads("image") :
          /\ u < j
          /\ u = Max(Uploads("image"))
          /\ Ok(wire[u].answer)

ImageThenAudio ==
    mode = "submit" =>
        /\ \A j \in 1..Len(wire) : wire[j].kind = "audio" =>
              /\ ImageIngested(j)
              /\ \A i \in 1..Len(wire) : wire[i].kind = "image" => i < j
        /\ \A i \in 1..Len(wire) : wire[i].op \in PipelineOps

\* C39: in a submit the image asset is completely ingested before the
\* audio URL is fetched and no image request follows an audio request; and
\* once a step has failed no further request is sent, so nothing deletes
\* or compensates for the asset records already created.
C39_ImageThenAudioNoCompensation ==
    /\ []ImageThenAudio
    /\ [][(mode = "submit" /\ pc = "failed") => wire' = wire]_vars

\* an audio asset creation failed after the image was ingested, and the
\* failing request is the last one sent
C39_Witness ==
    /\ mode = "submit"
    /\ pc = "failed"
    /\ Uploads("image") # {}
    /\ Creations("audio") # {}
    /\ Len(wire) = Min(Creations("audio"))
    /\ ~Ok(wire[Len(wire)].answer)

(***************************************************************************)
(* Claims about the status code a failure reaches the caller with          *)
(***************************************************************************)
\* the last Len(t) elements of s are t
IsSuffix(s, t) ==
    /\ Len(t) <= Len(s)
    /\ SubSeq(s, Len(s) - Len(t) + 1, Len(s)) = t

\* C40: a submit that failed, at whichever step, answers 500: the 400 (or
\* 500) raised inside is replaced by 500 and the message raised inside is
\* kept in the detail, after "Failed to submit job: "; get-status answers a
\* remote 404 with 404 and a remote 422 with 422.
C40_SubmitFailuresAre500 ==
    /\ (mode = "submit" /\ pc = "failed") =>
          /\ raised # << >>
          /\ reply # << >>
          /\ reply[1].http = 500
          /\ reply[1].detail[1] = "Failed to submit job: "
          /\ IsSuffix(reply[1].detail, raised[1].detail)
    /\ (spc = "done" /\ hedra.code \in {404, 422}) =>
          /\ view.http = hedra.code
          /\ view.job = << >>

\* an upload rejection raised as 400 inside reaches the caller as 500 with
\* the remote body in the detail
C40_Witness ==
    /\ mode = "submit"
    /\ pc = "failed"
    /\ raised # << >>
    /\ raised[1].status_code = 400
    /\ wire[Len(wire)].op = "upload"
    /\ reply[1].http = 500
    /\ IsSuffix(reply[1].detail, wire[Len(wire)].answer.body)
    /\ wire[Len(wire)].answer.body # << >>

C40_StatusWitness ==
    /\ spc = "done"
    /\ hedra.code = 404
    /\ view.http = 404
    /\ wire = << >>

====
